---- MODULE Spec2Model ----
(***************************************************************************)
(* Model of the Monty gateway (src/gateway/main.py): the WebSocket         *)
(* connection handler _handle_chat, the Ollama streaming bridge            *)
(* stream_ollama, the process-wide `conversations` registry and the        *)
(* lifespan shutdown.                                                      *)
(*                                                                         *)
(* Text is a sequence of one-character strings, so that str.strip and the  *)
(* "\n".join of the prompt are computed, not assumed.  One action is one   *)
(* run of a coroutine between two suspension points, together with the    *)
(* outbound send_json it ends in; a send either delivers the frame or      *)
(* raises.                                                                 *)
(***************************************************************************)
EXTENDS Integers, Sequences, FiniteSets, TLC

\* ------------------------------------------------------------------ bounds
\* Inbound frames read by all connections together.
MaxFrames == 2
\* Lines read from one upstream response.
MaxLines == 2

Conns == {"c1", "c2"}

\* --------------------------------------------------------- program constants
OLLAMA_HOST == "http://localhost:11434"

\* ------------------------------------------------------------ JSON values
\* A key that is absent from a JSON object (dict.get returns its default).
Missing == "<missing>"
\* A value that is not a string (null, a number, a list): no .strip().
NonString == "<non-string>"
\* A conversation_id that is falsy in Python ("", null, 0, []).
Falsy == "<falsy>"
\* A conversation_id that is truthy but unhashable (a non-empty list or object).
Unhashable == "<unhashable>"
\* JSON null in an outbound frame (Python None).
None == "<null>"

Space == {" ", "\n"}

\* The `message` texts a client sends: empty, whitespace only, and one text of
\* its own, padded with whitespace (so the turns of two connections differ);
\* the text of c2 has a line break inside, which strip() leaves.
OwnText(c) == IF c = "c1" THEN <<" ", "h", " ">> ELSE <<"\n", "i", "\n", "j">>
MessageTexts(c) == {<<>>, <<" ">>, OwnText(c)}
\* What data.get("message", "") can find: a text, no such key, or a non-string.
MessageValues(c) == MessageTexts(c) \cup {<<Missing>>, <<NonString>>}

\* The conversation ids a client sends of its own.
ClientIds == {"A"}

\* The `response` text of the n-th line of an upstream response: empty, or a
\* fragment that tells the lines apart.
Letters == <<"x", "y", "z", "w">>
Fragments(n) == {<<>>, <<Letters[n]>>}

\* ------------------------------------------------------------ pure helpers
RECURSIVE LStrip(_)
LStrip(s) == IF s # <<>> /\ Head(s) \in Space THEN LStrip(Tail(s)) ELSE s

RECURSIVE RStrip(_)
RStrip(s) ==
    IF s # <<>> /\ s[Len(s)] \in Space THEN RStrip(SubSeq(s, 1, Len(s) - 1)) ELSE s

\* A mutation of strip: the text is left as it is.
StripNothing(s) == s

\* str.strip()
Strip(s) == RStrip(LStrip(s))

\* str(uuid.uuid4()): the n-th identifier drawn by the handler of connection c.
\* A uuid4 is random; the model names it by who drew it and when, so that no
\* two draws give the same identifier.
Uuid(c, n) == c \o "-u" \o ToString(n)

\* A mutation of the user turn: it is stored under the role of the assistant.
UserTurnAsAssistant(text) == [role |-> "assistant", content |-> text]

UserTurn(text) == [role |-> "user", content |-> text]
\* A mutation of the accumulator: the turn keeps the last token only
\* (`full_response = token`).
AssistantTurnLastToken(text) ==
    [role |-> "assistant",
     content |-> IF text = <<>> THEN <<>> ELSE <<text[Len(text)]>>]

AssistantTurn(text) == [role |-> "assistant", content |-> text]

\* role_label of one turn, and f"{role_label}: {turn['content']}"
RoleLabel(turn) == IF turn.role = "user" THEN "User: " ELSE "Assistant: "
PromptLine(turn) == <<RoleLabel(turn)>> \o turn.content

\* "\n".join(parts)
RECURSIVE Join(_)
Join(parts) ==
    IF parts = <<>> THEN <<>>
    ELSE IF Len(parts) = 1 THEN parts[1]
    ELSE parts[1] \o <<"\n">> \o Join(Tail(parts))

\* A mutation of the rendering: the prompt is the last turn and the cue, not
\* the whole history.
RenderPromptLastTurn(history) ==
    IF history = <<>> THEN <<"Assistant:">>
    ELSE PromptLine(history[Len(history)]) \o <<"\n", "Assistant:">>

\* The prompt built from a history: one line per turn, then the cue line.
RenderPrompt(history) ==
    Join([i \in 1..(Len(history) + 1) |->
            IF i <= Len(history) THEN PromptLine(history[i]) ELSE <<"Assistant:">>])

\* ------------------------------------------------------------ outbound frames
ContentFrame(task, token, conv) ==
    [task_id |-> task, event_type |-> "content", content |-> token,
     error_message |-> <<>>, conversation_id |-> conv, is_complete |-> "false"]

CompletedFrame(task, conv) ==
    [task_id |-> task, event_type |-> "completed", content |-> <<"Task completed">>,
     error_message |-> <<>>, conversation_id |-> conv, is_complete |-> Missing]

\* A mutation of the error frame: the conversation id is left out.
ErrorFrameNoConversation(task, msg, conv) ==
    [task_id |-> task, event_type |-> "error", content |-> <<>>,
     error_message |-> msg, conversation_id |-> None, is_complete |-> Missing]

ErrorFrame(task, msg, conv) ==
    [task_id |-> task, event_type |-> "error", content |-> <<>>,
     error_message |-> msg, conversation_id |-> conv, is_complete |-> Missing]

\* The three error texts of stream_ollama and the two of _handle_chat.
StatusCodes == {"500"}
\* A mutation: the status code is left out of the text.
StatusMessageNoCode(code) == <<"Ollama returned an error">>
StatusMessage(code) == <<"Ollama returned HTTP ", code>>
\* A mutation: the address is left out of the text.
ConnectMessageNoHost == <<"Cannot connect to Ollama">>
ConnectMessage == <<"Cannot connect to Ollama at ", OLLAMA_HOST>>
\* str(exc), by the class of fault: a chunk that cannot be handled ("decode"),
\* a transport fault of the upstream call ("transport"), a send_json that raised
\* ("send").
ExcMessage(class) == <<"str(exc): " \o class>>
InvalidJson == <<"Invalid JSON">>
EmptyMessage == <<"Empty message">>

\* ------------------------------------------------------------------ state
VARIABLES
    conversations,  \* the registry: conversation id -> list of turns
    running,        \* FALSE once lifespan has run its shutdown half
    pc,             \* per connection: where its _handle_chat coroutine is
    open,           \* per connection: the peer has not closed it
    cur,            \* per connection: the locals of the request in hand
    out,            \* per connection: the frames delivered to the peer
    requests,       \* the upstream requests opened: task id -> what was sent
    nrecv,          \* per connection: inbound frames read so far
    nextUuid,       \* per connection: uuid4() values drawn so far, plus one
    wrap,           \* scripts/ddtrace-llm-wrapper.py: one traced call
    ingest,         \* scripts/ingest-project-readmes.py: the table and the run
    notify          \* scripts/notify-server.py: the request last handled

vars == <<conversations, running, pc, open, cur, out, requests, nrecv, nextUuid,
          wrap, ingest, notify>>

\* The scripts are programs of their own: the gateway never touches their
\* state, and they never touch the gateway's.
Unused == "<unused>"

\* The locals before any frame was read.  Beside the locals of the code
\* (conversation_id, message, task_id, prompt, full_response) the record keeps
\* what the request was and how it went: kind (parse, empty, chat, crash), blank
\* (the message as sent had nothing but whitespace), supplied (the conversation
\* id as sent, Missing when none or a falsy one), nlines (lines read), before
\* and after (the history when the frame was read and when the terminal event
\* was sent), terminal (the terminal event sent), fault (the except clause
\* run), appended (the assistant turn was appended), raised (a send_json of
\* this request raised), malformed (a line of the upstream response was not
\* JSON) and done (a chunk of the upstream response had its `done` flag set).
NoRequest ==
    [kind |-> "none", blank |-> FALSE, supplied |-> Missing,
     conversation_id |-> None, message |-> <<>>,
     task_id |-> None, prompt |-> <<>>, full_response |-> <<>>, nlines |-> 0,
     before |-> <<>>, after |-> <<>>, terminal |-> "none", fault |-> "none",
     appended |-> FALSE, raised |-> FALSE, malformed |-> FALSE, done |-> FALSE]

\* The locals that die when stream_ollama returns or is left by an exception.
\* What was noted about the response (malformed, done) goes with them.
Returned(cu) ==
    [cu EXCEPT !.prompt = <<>>, !.full_response = <<>>, !.nlines = 0,
               !.malformed = FALSE, !.done = FALSE]

\* The history of a conversation id, empty when the id is not in the registry.
Hist(convs, id) == IF id \in DOMAIN convs THEN convs[id] ELSE <<>>

GatewayInit ==
    /\ conversations = [id \in {} |-> <<>>]
    /\ running = TRUE
    /\ pc = [c \in Conns |-> "new"]
    /\ open = [c \in Conns |-> TRUE]
    /\ cur = [c \in Conns |-> NoRequest]
    /\ out = [c \in Conns |-> <<>>]
    /\ requests = [t \in {} |-> <<>>]
    /\ nrecv = [c \in Conns |-> 0]
    /\ nextUuid = [c \in Conns |-> 1]

Init == GatewayInit /\ wrap = Unused /\ ingest = Unused /\ notify = Unused

\* Inbound frames read so far by all connections.
RECURSIVE SumRecv(_)
SumRecv(S) == IF S = {} THEN 0 ELSE LET c == CHOOSE x \in S : TRUE IN nrecv[c] + SumRecv(S \ {c})

\* A mutation of the send: a frame sent to a peer that is gone is dropped
\* without an exception.
SendOutcomesIgnoreClose(c) == {"sent", "WebSocketDisconnect", "RuntimeError"}

\* What one await websocket.send_json(...) can do: deliver the frame, or raise
\* (WebSocketDisconnect, or another exception); it raises once the peer is gone.
SendOutcomes(c) ==
    IF open[c] THEN {"sent", "WebSocketDisconnect", "RuntimeError"}
    ELSE {"WebSocketDisconnect", "RuntimeError"}

\* Where _handle_chat ends when exception `exc` reaches its outer try: the loop
\* is left quietly on WebSocketDisconnect, anything else escapes the coroutine.
Escaped(exc) == IF exc = "WebSocketDisconnect" THEN "gone" ELSE "crashed"

\* The `conversation_id` values a client can send: none or a falsy one, an id of
\* its own, or an unhashable JSON value.
SuppliedIds == {Missing, Falsy, Unhashable} \cup ClientIds

\* ------------------------------------------------- _handle_chat, the listener
\* websocket.accept()
Connect(c) ==
    /\ running
    /\ pc[c] = "new"
    /\ pc' = [pc EXCEPT ![c] = "recv"]
    /\ UNCHANGED <<wrap, ingest, notify, conversations, running, open, cur, out, requests, nrecv,
                   nextUuid>>

\* The peer closes its end; the handler learns of it at its next receive or send.
PeerClose(c) ==
    /\ running
    /\ pc[c] \in {"recv", "open", "read", "finish"}
    /\ open[c]
    /\ open' = [open EXCEPT ![c] = FALSE]
    /\ UNCHANGED <<wrap, ingest, notify, conversations, running, pc, cur, out, requests, nrecv,
                   nextUuid>>

\* receive_text() raises WebSocketDisconnect; `except WebSocketDisconnect: pass`.
RecvDisconnect(c) ==
    /\ running
    /\ pc[c] = "recv"
    /\ ~open[c]
    /\ pc' = [pc EXCEPT ![c] = "gone"]
    /\ UNCHANGED <<wrap, ingest, notify, conversations, running, open, cur, out, requests, nrecv,
                   nextUuid>>

\* A mutation of the loop: the next frame is read while stream_ollama is still
\* reading the upstream response (the call is spawned, not awaited).
CanRecvWhileStreaming(c) ==
    /\ running
    /\ pc[c] \in {"recv", "read"}
    /\ open[c]
    /\ SumRecv(Conns) < MaxFrames

\* A mutation of the loop: a frame is read only while no other connection is
\* inside stream_ollama (one global lock around the generation).
CanRecvOneAtATime(c) ==
    /\ running
    /\ pc[c] = "recv"
    /\ open[c]
    /\ SumRecv(Conns) < MaxFrames
    /\ \A d \in Conns \ {c} : pc[d] \notin {"open", "read", "finish"}

\* receive_text() returns a frame.
CanRecv(c) ==
    /\ running
    /\ pc[c] = "recv"
    /\ open[c]
    /\ SumRecv(Conns) < MaxFrames

\* A send_json of _handle_chat itself (outside stream_ollama), then `continue`:
\* delivered, the loop goes back to receive_text; raised, the loop is left.
HandlerSend(c, frame, cu) ==
    \E o \in SendOutcomes(c) :
        IF o = "sent"
        THEN /\ out' = [out EXCEPT ![c] = Append(@, frame)]
             /\ pc' = [pc EXCEPT ![c] = "recv"]
             /\ cur' = [cur EXCEPT ![c] = [cu EXCEPT !.terminal = "error"]]
        ELSE /\ out' = out
             /\ pc' = [pc EXCEPT ![c] = Escaped(o)]
             /\ cur' = [cur EXCEPT ![c] = [cu EXCEPT !.raised = TRUE]]

\* A mutation of the parse-error branch: the handler returns instead of `continue`.
RecvMalformedReturns(c) ==
    /\ CanRecv(c)
    /\ out' = [out EXCEPT ![c] = Append(@, ErrorFrame(Uuid(c, nextUuid[c]), InvalidJson, None))]
    /\ pc' = [pc EXCEPT ![c] = "gone"]
    /\ cur' = [cur EXCEPT ![c] = [NoRequest EXCEPT
                    !.kind = "parse", !.task_id = Uuid(c, nextUuid[c]), !.terminal = "error"]]
    /\ nrecv' = [nrecv EXCEPT ![c] = @ + 1]
    /\ nextUuid' = [nextUuid EXCEPT ![c] = @ + 1]
    /\ UNCHANGED <<wrap, ingest, notify, conversations, running, open, requests>>

\* json.loads(raw) raises JSONDecodeError: the "Invalid JSON" frame, `continue`.
RecvMalformed(c) ==
    /\ CanRecv(c)
    /\ LET task == Uuid(c, nextUuid[c])
           cu == [NoRequest EXCEPT !.kind = "parse", !.task_id = task]
       IN  HandlerSend(c, ErrorFrame(task, InvalidJson, None), cu)
    /\ nrecv' = [nrecv EXCEPT ![c] = @ + 1]
    /\ nextUuid' = [nextUuid EXCEPT ![c] = @ + 1]
    /\ UNCHANGED <<wrap, ingest, notify, conversations, running, open, requests>>

\* json.loads(raw) gives a value that is not an object (a list, a number, a
\* string, null): data.get raises AttributeError, which nothing catches.
RecvNonObject(c) ==
    /\ CanRecv(c)
    /\ pc' = [pc EXCEPT ![c] = "crashed"]
    /\ cur' = [cur EXCEPT ![c] = [NoRequest EXCEPT !.kind = "crash"]]
    /\ nrecv' = [nrecv EXCEPT ![c] = @ + 1]
    /\ UNCHANGED <<wrap, ingest, notify, conversations, running, open, out, requests, nextUuid>>

\* An object whose "message" is not a string: .strip() raises AttributeError.
RecvBadMessage(c, cid) ==
    /\ CanRecv(c)
    /\ pc' = [pc EXCEPT ![c] = "crashed"]
    /\ cur' = [cur EXCEPT ![c] = [NoRequest EXCEPT
                    !.kind = "crash",
                    !.supplied = IF cid = Falsy THEN Missing ELSE cid]]
    /\ nrecv' = [nrecv EXCEPT ![c] = @ + 1]
    /\ UNCHANGED <<wrap, ingest, notify, conversations, running, open, out, requests, nextUuid>>

\* data.get("message", "")
MessageOf(m) == IF m = <<Missing>> THEN <<>> ELSE m
\* data.get("conversation_id") or str(uuid.uuid4()), with the uuid drawn as the n-th
DrawsConv(cid) == cid \in {Missing, Falsy}
ResolveConv(c, cid, n) == IF DrawsConv(cid) THEN Uuid(c, n) ELSE cid
\* A mutation of the task id: one id per connection, not one per request.
TaskIdPerConnection(c, cid, n) == c \o "-task"

\* task_id = str(uuid.uuid4()), drawn after the conversation id
TaskIdAt(c, cid, n) == IF DrawsConv(cid) THEN Uuid(c, n + 1) ELSE Uuid(c, n)
UuidsDrawn(cid) == IF DrawsConv(cid) THEN 2 ELSE 1

\* The locals of _handle_chat once lines 265-267 have run.
Resolved(c, m, cid, kind) ==
    [NoRequest EXCEPT
        !.kind = kind,
        !.blank = \A i \in 1..Len(MessageOf(m)) : MessageOf(m)[i] \in Space,
        !.supplied = IF cid = Falsy THEN Missing ELSE cid,
        !.message = Strip(MessageOf(m)),
        !.conversation_id = ResolveConv(c, cid, nextUuid[c]),
        !.task_id = TaskIdAt(c, cid, nextUuid[c])]

\* `if not message`: the "Empty message" frame, `continue`.
RecvEmpty(c, m, cid) ==
    /\ CanRecv(c)
    /\ m # <<NonString>>
    /\ Strip(MessageOf(m)) = <<>>
    /\ LET cu == Resolved(c, m, cid, "empty")
       IN  HandlerSend(c, ErrorFrame(cu.task_id, EmptyMessage, cu.conversation_id), cu)
    /\ nrecv' = [nrecv EXCEPT ![c] = @ + 1]
    /\ nextUuid' = [nextUuid EXCEPT ![c] = @ + UuidsDrawn(cid)]
    /\ UNCHANGED <<wrap, ingest, notify, conversations, running, open, requests>>

\* stream_ollama is entered with an unhashable conversation id:
\* `conversation_id not in conversations` raises TypeError ahead of the try.
RecvUnhashable(c, m) ==
    /\ CanRecv(c)
    /\ m # <<NonString>>
    /\ Strip(MessageOf(m)) # <<>>
    /\ pc' = [pc EXCEPT ![c] = "crashed"]
    /\ cur' = [cur EXCEPT ![c] = Resolved(c, m, Unhashable, "chat")]
    /\ nrecv' = [nrecv EXCEPT ![c] = @ + 1]
    /\ nextUuid' = [nextUuid EXCEPT ![c] = @ + UuidsDrawn(Unhashable)]
    /\ UNCHANGED <<wrap, ingest, notify, conversations, running, open, out, requests>>

\* ------------------------------------------------------------- stream_ollama
\* A mutation of the append: every conversation shares one list object.
AppendTurnShared(convs, id, turn) ==
    [k \in DOMAIN convs \cup {id} |-> Append(Hist(convs, k), turn)]

\* A mutation of the append: a lost update.  The assistant turn is written over
\* the last turn of a history that holds more than one turn.
AppendTurnStale(convs, id, turn) ==
    [k \in DOMAIN convs \cup {id} |->
        IF k = id
        THEN IF turn.role = "assistant" /\ Len(Hist(convs, id)) > 1
             THEN Append(SubSeq(convs[id], 1, Len(convs[id]) - 1), turn)
             ELSE Append(Hist(convs, id), turn)
        ELSE convs[k]]

\* history.append(turn) on conversations[id], the list being created when absent.
AppendTurn(convs, id, turn) ==
    [k \in DOMAIN convs \cup {id} |->
        IF k = id THEN Append(Hist(convs, id), turn) ELSE convs[k]]

\* A mutation of stream_ollama: the prompt is rendered before the user turn is
\* appended.
RecvChatRendersFirst(c, m, cid) ==
    /\ CanRecv(c)
    /\ m # <<NonString>>
    /\ cid # Unhashable
    /\ Strip(MessageOf(m)) # <<>>
    /\ LET cu == Resolved(c, m, cid, "chat")
           convs == AppendTurn(conversations, cu.conversation_id, UserTurn(cu.message))
       IN  /\ conversations' = convs
           /\ cur' = [cur EXCEPT ![c] = [cu EXCEPT
                        !.before = Hist(conversations, cu.conversation_id),
                        !.prompt = RenderPrompt(Hist(conversations, cu.conversation_id))]]
    /\ pc' = [pc EXCEPT ![c] = "open"]
    /\ nrecv' = [nrecv EXCEPT ![c] = @ + 1]
    /\ nextUuid' = [nextUuid EXCEPT ![c] = @ + UuidsDrawn(cid)]
    /\ UNCHANGED <<wrap, ingest, notify, running, open, out, requests>>

\* stream_ollama up to its first await: the user turn is appended and the prompt
\* is rendered from the whole history.
RecvChat(c, m, cid) ==
    /\ CanRecv(c)
    /\ m # <<NonString>>
    /\ cid # Unhashable
    /\ Strip(MessageOf(m)) # <<>>
    /\ LET cu == Resolved(c, m, cid, "chat")
           convs == AppendTurn(conversations, cu.conversation_id, UserTurn(cu.message))
       IN  /\ conversations' = convs
           /\ cur' = [cur EXCEPT ![c] = [cu EXCEPT
                        !.before = Hist(conversations, cu.conversation_id),
                        !.prompt = RenderPrompt(convs[cu.conversation_id])]]
    /\ pc' = [pc EXCEPT ![c] = "open"]
    /\ nrecv' = [nrecv EXCEPT ![c] = @ + 1]
    /\ nextUuid' = [nextUuid EXCEPT ![c] = @ + UuidsDrawn(cid)]
    /\ UNCHANGED <<wrap, ingest, notify, running, open, out, requests>>

\* A mutation of the except clauses: after the `error` frame the request is
\* tried again.
ExceptRetries(c, fault, msg, cu, convs, raised) ==
    /\ conversations' = convs
    /\ out' = [out EXCEPT ![c] =
                Append(@, ErrorFrame(cu.task_id, msg, cu.conversation_id))]
    /\ pc' = [pc EXCEPT ![c] = "open"]
    /\ cur' = [cur EXCEPT ![c] = [cu EXCEPT !.terminal = "error", !.fault = fault]]

\* A mutation of the except clauses: the user turn of the failed exchange is
\* taken out of the history again.
ExceptRollsBack(c, fault, msg, cu, convs, raised) ==
    /\ conversations' = [convs EXCEPT ![cu.conversation_id] =
                            SubSeq(@, 1, Len(@) - 1)]
    /\ out' = [out EXCEPT ![c] =
                Append(@, ErrorFrame(cu.task_id, msg, cu.conversation_id))]
    /\ pc' = [pc EXCEPT ![c] = "recv"]
    /\ cur' = [cur EXCEPT ![c] = [Returned(cu) EXCEPT
                !.terminal = "error", !.fault = fault]]

\* One `except` clause of stream_ollama running for connection c: the `error`
\* frame is sent; if that send raises too, the exception leaves stream_ollama and
\* reaches the outer try of _handle_chat.  cu and convs are the locals and the
\* registry as the guarded section left them; `raised` tells that the fault was
\* itself a send_json that raised.
Except(c, fault, msg, cu, convs, raised) ==
    \E o \in SendOutcomes(c) :
        /\ conversations' = convs
        /\ IF o = "sent"
           THEN /\ out' = [out EXCEPT ![c] =
                            Append(@, ErrorFrame(cu.task_id, msg, cu.conversation_id))]
                /\ pc' = [pc EXCEPT ![c] = "recv"]
                /\ cur' = [cur EXCEPT ![c] = [Returned(cu) EXCEPT
                            !.terminal = "error", !.fault = fault,
                            !.raised = raised,
                            !.after = Hist(convs, cu.conversation_id)]]
           ELSE /\ out' = out
                /\ pc' = [pc EXCEPT ![c] = Escaped(o)]
                /\ cur' = [cur EXCEPT ![c] = [Returned(cu) EXCEPT
                            !.fault = fault, !.raised = TRUE]]

\* What opening the upstream request can do: a response with a success status,
\* httpx.ConnectError, a response that raise_for_status rejects, any other fault.
OpenOutcomes == {"ok", "ConnectError", "HTTPStatusError", "Exception"}

\* The log of upstream requests after one more is opened for `task`.
Opened(reqs, task, conv, prompt) ==
    [t \in DOMAIN reqs \cup {task} |->
        IF t = task
        THEN [conversation_id |-> conv, prompt |-> prompt,
              count |-> IF task \in DOMAIN reqs THEN reqs[task].count + 1 ELSE 1]
        ELSE reqs[t]]

\* client.stream("POST", f"{OLLAMA_HOST}/api/generate", json=payload) and
\* response.raise_for_status().
OpenUpstream(c, outcome, code) ==
    /\ running
    /\ pc[c] = "open"
    /\ requests' = Opened(requests, cur[c].task_id, cur[c].conversation_id,
                           cur[c].prompt)
    /\ CASE outcome = "ok" ->
                /\ pc' = [pc EXCEPT ![c] = "read"]
                /\ UNCHANGED <<conversations, cur, out>>
         [] outcome = "ConnectError" ->
                Except(c, "ConnectError", ConnectMessage, cur[c], conversations, FALSE)
         [] outcome = "HTTPStatusError" ->
                Except(c, "HTTPStatusError", StatusMessage(code), cur[c],
                       conversations, FALSE)
         [] OTHER ->
                Except(c, "Exception", ExcMessage("transport"), cur[c],
                       conversations, FALSE)
    /\ UNCHANGED <<wrap, ingest, notify, running, open, nrecv, nextUuid>>

\* The lines response.aiter_lines() can yield: an empty line, a line that is not
\* JSON, a JSON value that is not an object, or a chunk object with its
\* `response` (a text, absent, or a truthy non-string) and its `done` flag.
NoLine == [kind |-> "empty", response |-> <<>>, done |-> FALSE]
Lines(n) ==
    {NoLine, [NoLine EXCEPT !.kind = "garbage"], [NoLine EXCEPT !.kind = "nondict"]}
    \cup [kind : {"chunk"}, response : Fragments(n) \cup {<<Missing>>, <<NonString>>},
          done : BOOLEAN]

\* A mutation of the lookup: the wrong key, so that every chunk has no token.
TokenOfWrongKey(line) == <<>>

\* chunk.get("response", "")
TokenOf(line) == IF line.response = <<Missing>> THEN <<>> ELSE line.response

\* A mutation of the stop condition: the `done` flag is not looked at.
DoneOfIgnored(line) == FALSE

\* chunk.get("done")
DoneOf(line) == line.done

\* One iteration of `async for line in response.aiter_lines()`.
ReadLine(c, line) ==
    /\ running
    /\ pc[c] = "read"
    /\ cur[c].nlines < MaxLines
    /\ LET cu == [cur[c] EXCEPT !.nlines = @ + 1,
                                !.malformed = @ \/ line.kind = "garbage",
                                !.done = @ \/ DoneOf(line)]
           token == TokenOf(line)
           after == IF DoneOf(line) THEN "finish" ELSE "read"
       IN  CASE line.kind \in {"empty", "garbage"} ->
                    \* `continue`
                    /\ cur' = [cur EXCEPT ![c] = cu]
                    /\ UNCHANGED <<conversations, pc, out>>
             [] line.kind = "nondict" ->
                    \* chunk.get raises AttributeError
                    Except(c, "Exception", ExcMessage("decode"), cu,
                           conversations, FALSE)
             [] line.kind = "chunk" /\ token = <<NonString>> ->
                    \* full_response += token raises TypeError
                    Except(c, "Exception", ExcMessage("decode"), cu,
                           conversations, FALSE)
             [] line.kind = "chunk" /\ token = <<>> ->
                    /\ cur' = [cur EXCEPT ![c] = cu]
                    /\ pc' = [pc EXCEPT ![c] = after]
                    /\ UNCHANGED <<conversations, out>>
             [] OTHER ->
                    LET cu2 == [cu EXCEPT !.full_response = @ \o token]
                    IN  \E o \in SendOutcomes(c) :
                            IF o = "sent"
                            THEN /\ out' = [out EXCEPT ![c] = Append(@,
                                        ContentFrame(cu.task_id, token, cu.conversation_id))]
                                 /\ cur' = [cur EXCEPT ![c] = cu2]
                                 /\ pc' = [pc EXCEPT ![c] = after]
                                 /\ UNCHANGED conversations
                            ELSE Except(c, "Exception", ExcMessage("send"), cu2,
                                        conversations, TRUE)
    /\ UNCHANGED <<wrap, ingest, notify, running, open, requests, nrecv, nextUuid>>

\* aiter_lines() is exhausted: the loop ends without a `done` chunk.
EndOfStream(c) ==
    /\ running
    /\ pc[c] = "read"
    /\ pc' = [pc EXCEPT ![c] = "finish"]
    /\ UNCHANGED <<wrap, ingest, notify, conversations, running, open, cur, out, requests, nrecv,
                   nextUuid>>

\* The response fails while it is read or closed (httpx.ReadError, ReadTimeout,
\* RemoteProtocolError): `except Exception`.
UpstreamFault(c) ==
    /\ running
    /\ pc[c] \in {"read", "finish"}
    /\ Except(c, "Exception", ExcMessage("transport"), cur[c], conversations, FALSE)
    /\ UNCHANGED <<wrap, ingest, notify, running, open, requests, nrecv, nextUuid>>

\* After the loop: the assistant turn is appended, then `completed` is sent; a
\* send that raises is still inside the try and runs `except Exception`.
Finish(c) ==
    /\ running
    /\ pc[c] = "finish"
    /\ LET cu == [cur[c] EXCEPT !.appended = TRUE]
           convs == AppendTurn(conversations, cu.conversation_id,
                               AssistantTurn(cu.full_response))
       IN  \E o \in SendOutcomes(c) :
               IF o = "sent"
               THEN /\ conversations' = convs
                    /\ out' = [out EXCEPT ![c] = Append(@,
                                CompletedFrame(cu.task_id, cu.conversation_id))]
                    /\ pc' = [pc EXCEPT ![c] = "recv"]
                    /\ cur' = [cur EXCEPT ![c] = [Returned(cu) EXCEPT
                                !.terminal = "completed",
                                !.after = convs[cu.conversation_id]]]
               ELSE Except(c, "Exception", ExcMessage("send"), cu, convs, TRUE)
    /\ UNCHANGED <<wrap, ingest, notify, running, open, requests, nrecv, nextUuid>>

\* ------------------------------------------------------------------ lifespan
\* The shutdown half of lifespan: conversations.clear().  The server runs it
\* once every connection handler has ended.
Shutdown ==
    /\ running
    /\ \A c \in Conns : pc[c] \in {"new", "gone", "crashed"}
    /\ running' = FALSE
    /\ conversations' = [id \in {} |-> <<>>]
    /\ UNCHANGED <<wrap, ingest, notify, pc, open, cur, out, requests, nrecv, nextUuid>>

Next ==
    \/ \E c \in Conns : Connect(c)
    \/ \E c \in Conns : PeerClose(c)
    \/ \E c \in Conns : RecvDisconnect(c)
    \/ \E c \in Conns : RecvMalformed(c)
    \/ \E c \in Conns : RecvNonObject(c)
    \/ \E c \in Conns, cid \in SuppliedIds : RecvBadMessage(c, cid)
    \/ \E c \in Conns : \E m \in MessageValues(c), cid \in SuppliedIds : RecvEmpty(c, m, cid)
    \/ \E c \in Conns : \E m \in MessageValues(c) : RecvUnhashable(c, m)
    \/ \E c \in Conns : \E m \in MessageValues(c), cid \in SuppliedIds : RecvChat(c, m, cid)
    \/ \E c \in Conns, o \in OpenOutcomes, code \in StatusCodes : OpenUpstream(c, o, code)
    \/ \E c \in Conns : \E line \in Lines(cur[c].nlines + 1) : ReadLine(c, line)
    \/ \E c \in Conns : EndOfStream(c)
    \/ \E c \in Conns : UpstreamFault(c)
    \/ \E c \in Conns : Finish(c)
    \/ Shutdown

Spec == Init /\ [][Next]_vars

\* ===================================================================== claims
\* The frames among `frames` that carry task id t, in order.
FramesIn(frames, t) == SelectSeq(frames, LAMBDA f : f.task_id = t)
\* The frames delivered on connection c that carry task id t, in order.
FramesOf(c, t) == FramesIn(out[c], t)

IsTerminal(f) == f.event_type \in {"completed", "error"}

\* Zero or more `content` frames, then one terminal frame.
ContentThenTerminal(fs) ==
    /\ Len(fs) >= 1
    /\ IsTerminal(fs[Len(fs)])
    /\ \A i \in 1..(Len(fs) - 1) : fs[i].event_type = "content"

\* The handler of c is not inside stream_ollama: it waits for a frame or has ended.
Idle(c) == pc[c] \in {"recv", "gone", "crashed"}

IsPrefix(s, t) == Len(s) <= Len(t) /\ SubSeq(t, 1, Len(s)) = s

Contains(msg, part) == \E i \in 1..Len(msg) : msg[i] = part

\* C1: every decoded frame with a non-empty message gets zero or more `content`
\* events and then exactly one terminal event.  Stated for the requests whose
\* handling is over and during which no send_json raised (a frame that cannot be
\* delivered is not counted against the claim).
C1_ExactlyOneTerminal ==
    \A c \in Conns :
        (cur[c].kind = "chat" /\ Idle(c) /\ ~cur[c].raised)
            => ContentThenTerminal(FramesOf(c, cur[c].task_id))

\* C2: the terminal states of a task are final.  No frame of a task follows its
\* terminal frame, at most one upstream request is opened per task, and once a
\* task has its terminal event neither its frames, nor its upstream requests,
\* nor its record change any more.
C2_NothingAfterTerminal ==
    /\ \A c \in Conns : \A i \in 1..Len(out[c]) :
          IsTerminal(out[c][i]) =>
              \A d \in Conns : \A j \in 1..Len(out[d]) :
                  out[d][j].task_id = out[c][i].task_id => (d = c /\ j <= i)
    /\ \A t \in DOMAIN requests : requests[t].count = 1

C2_TerminalIsFinal ==
    /\ []C2_NothingAfterTerminal
    /\ [][\A c \in Conns :
            cur[c].terminal # "none" =>
                LET t == cur[c].task_id
                IN  /\ FramesIn(out'[c], t) = FramesIn(out[c], t)
                    /\ (t \in DOMAIN requests') = (t \in DOMAIN requests)
                    /\ (t \in DOMAIN requests => requests'[t] = requests[t])
                    /\ (cur'[c].task_id = t => cur'[c] = cur[c])]_vars

\* A task with content events and a terminal event, followed on the same
\* connection by the frames of a later task.
C2_Witness ==
    \E c \in Conns :
        /\ Len(out[c]) >= 3
        /\ out[c][1].event_type = "content"
        /\ IsTerminal(out[c][2])
        /\ out[c][3].task_id # out[c][1].task_id

\* C3: an exchange that ends with `completed` has grown the history, from just
\* before the request to just after `completed`, by exactly a user turn and then
\* an assistant turn.
C3_CompletedAddsTwo ==
    \A c \in Conns :
        cur[c].terminal = "completed" =>
            /\ Len(cur[c].after) = Len(cur[c].before) + 2
            /\ IsPrefix(cur[c].before, cur[c].after)
            /\ cur[c].after[Len(cur[c].after) - 1] = UserTurn(cur[c].message)
            /\ cur[c].after[Len(cur[c].after)].role = "assistant"

\* The history that the exchange of c saw at its terminal event holds no user
\* turn of another connection.
Unshared(c) ==
    \A i \in 1..Len(cur[c].after) :
        cur[c].after[i].role = "user" => cur[c].after[i].content = Strip(OwnText(c))

\* C4: an exchange in which the Bridge emits `error` has appended no assistant
\* turn, and has grown the history by exactly the user turn.  Stated for the
\* exchanges on a conversation that no other connection has written to.
C4_ErrorAddsOnlyUser ==
    \A c \in Conns :
        (cur[c].kind = "chat" /\ cur[c].terminal = "error" /\ Unshared(c)) =>
            /\ ~cur[c].appended
            /\ cur[c].after = Append(cur[c].before, UserTurn(cur[c].message))

\* C5: no error ends a connection's loop; only the peer closing the connection
\* does.  A handler that has ended has seen its peer close, or a send_json raise.
C5_OnlyPeerCloseEndsLoop ==
    \A c \in Conns :
        pc[c] \in {"gone", "crashed"} => (~open[c] \/ cur[c].raised)

\* C6: a malformed payload yields exactly one `error` frame with a null
\* conversation id and a fresh task id, opens no upstream request, leaves the
\* registry as it is, and the handler goes back to waiting for the next frame
\* (unless the send of that frame itself raises).
C6_ParseFrameIsAlone ==
    \A c \in Conns :
        (cur[c].kind = "parse" /\ ~cur[c].raised) =>
            /\ FramesOf(c, cur[c].task_id) =
                    <<ErrorFrame(cur[c].task_id, InvalidJson, None)>>
            /\ cur[c].task_id \notin DOMAIN requests

C6_MalformedPayload ==
    /\ []C6_ParseFrameIsAlone
    /\ [][\A c \in Conns :
            (nrecv'[c] = nrecv[c] + 1 /\ cur'[c].kind = "parse") =>
                /\ conversations' = conversations
                /\ requests' = requests
                /\ \A d \in Conns : \A i \in 1..Len(out[d]) :
                        out[d][i].task_id # cur'[c].task_id
                /\ \/ cur'[c].raised
                   \/ /\ out'[c] = Append(out[c],
                                ErrorFrame(cur'[c].task_id, InvalidJson, None))
                      /\ pc'[c] = "recv"]_vars

\* A connection that got the parse-error frame and went on to handle another frame.
C6_Witness ==
    \E c \in Conns :
        /\ nrecv[c] = 2
        /\ Len(out[c]) >= 2
        /\ out[c][1].event_type = "error"
        /\ out[c][1].conversation_id = None
        /\ out[c][2].task_id # out[c][1].task_id

\* C7: a frame whose message is empty, whitespace only or missing yields exactly
\* one `error` frame carrying the resolved conversation id (the client's, or a
\* fresh one), opens no upstream request, leaves the registry as it is, and the
\* handler goes back to waiting for the next frame (unless the send raises).
C7_EmptyFrameIsAlone ==
    \A c \in Conns :
        (cur[c].blank /\ ~cur[c].raised) =>
            /\ FramesOf(c, cur[c].task_id) =
                    <<ErrorFrame(cur[c].task_id, EmptyMessage, cur[c].conversation_id)>>
            /\ cur[c].task_id \notin DOMAIN requests

C7_EmptyMessage ==
    /\ []C7_EmptyFrameIsAlone
    /\ [][\A c \in Conns :
            (nrecv'[c] = nrecv[c] + 1 /\ cur'[c].blank) =>
                /\ cur'[c].kind = "empty"
                /\ conversations' = conversations
                /\ requests' = requests
                /\ IF cur'[c].supplied # Missing
                   THEN cur'[c].conversation_id = cur'[c].supplied
                   ELSE /\ cur'[c].conversation_id \notin
                                DOMAIN conversations \cup {None, Missing, Falsy}
                        /\ \A d \in Conns : \A i \in 1..Len(out[d]) :
                                out[d][i].conversation_id # cur'[c].conversation_id
                /\ \/ cur'[c].raised
                   \/ /\ out'[c] = Append(out[c],
                                ErrorFrame(cur'[c].task_id, EmptyMessage,
                                           cur'[c].conversation_id))
                      /\ pc'[c] = "recv"]_vars

\* A connection that got the empty-message frame, once with its own id and once
\* with a generated one, the registry still empty.
C7_Witness ==
    \E c \in Conns :
        /\ nrecv[c] = 2
        /\ Len(out[c]) = 2
        /\ cur[c].blank
        /\ out[c][1].error_message = EmptyMessage
        /\ out[c][1].conversation_id \in ClientIds
        /\ out[c][2].error_message = EmptyMessage
        /\ out[c][2].conversation_id \notin ClientIds
        /\ DOMAIN conversations = {}

\* C8: conversations with distinct ids are isolated.  The history of an id
\* changes only in a step of an exchange on that very id, and the prompt of every
\* upstream request is rendered from (a prefix of) the history of its own id.
C8_PromptFromOwnHistory ==
    running =>
        \A t \in DOMAIN requests :
            LET h == Hist(conversations, requests[t].conversation_id)
            IN  \E k \in 1..Len(h) : requests[t].prompt = RenderPrompt(SubSeq(h, 1, k))

C8_Isolation ==
    /\ []C8_PromptFromOwnHistory
    /\ [][running' =>
            \A id \in DOMAIN conversations' :
                Hist(conversations', id) # Hist(conversations, id) =>
                    \E c \in Conns :
                        /\ cur'[c].kind = "chat"
                        /\ cur'[c].conversation_id = id
                        /\ (pc'[c] # pc[c] \/ cur'[c] # cur[c])
                        /\ \A d \in Conns \ {c} : pc'[d] = pc[d] /\ cur'[d] = cur[d]]_vars

\* Two connections in overlapping exchanges on distinct ids, both upstream
\* requests opened.
C8_Witness ==
    \E c, d \in Conns :
        /\ c # d
        /\ pc[c] = "read" /\ pc[d] = "read"
        /\ cur[c].conversation_id # cur[d].conversation_id
        /\ cur[c].task_id \in DOMAIN requests
        /\ cur[d].task_id \in DOMAIN requests

\* C9: before the shutdown clear a history only grows; each state of it is a
\* prefix of every later one.
C9_HistoryOnlyGrows ==
    [][running' =>
        \A id \in DOMAIN conversations :
            /\ id \in DOMAIN conversations'
            /\ IsPrefix(conversations[id], conversations'[id])]_vars

\* A conversation id reused by a second exchange after a first, failed or not.
C9_Witness ==
    \E id \in DOMAIN conversations :
        /\ Len(conversations[id]) >= 3
        /\ \E c \in Conns : cur[c].terminal = "error" /\ cur[c].conversation_id = id

\* C10: when the upstream cannot be reached the exchange has exactly one frame,
\* an `error` whose text holds the configured address, and the handler goes back
\* to waiting for the next frame (unless the send of that frame itself raises).
C10_Unreachable ==
    [][\A c \in Conns :
        (pc[c] = "open" /\ cur'[c].fault = "ConnectError") =>
            \/ cur'[c].raised
            \/ /\ pc'[c] = "recv"
               /\ Len(out'[c]) = Len(out[c]) + 1
               /\ LET f == out'[c][Len(out'[c])]
                  IN  /\ f.event_type = "error"
                      /\ f.task_id = cur[c].task_id
                      /\ f.conversation_id = cur[c].conversation_id
                      /\ Contains(f.error_message, OLLAMA_HOST)
                      /\ FramesIn(out'[c], cur[c].task_id) = <<f>>]_vars

\* A connection whose first exchange met an unreachable upstream and whose
\* second exchange completed.
C10_Witness ==
    \E c \in Conns :
        /\ Len(out[c]) >= 2
        /\ out[c][1].event_type = "error"
        /\ Contains(out[c][1].error_message, OLLAMA_HOST)
        /\ out[c][Len(out[c])].event_type = "completed"
        /\ out[c][Len(out[c])].task_id # out[c][1].task_id

\* C11: a malformed or prematurely ended upstream response is a protocol error.
\* When the exchange leaves the streaming loop after a line that was not JSON,
\* or without any chunk whose `done` flag was set, it ends with `error`, not
\* `completed`, and no assistant turn is appended.
C11_ProtocolError ==
    [][\A c \in Conns :
        (pc[c] = "finish" /\ pc'[c] # "finish"
            /\ (cur[c].malformed \/ ~cur[c].done)) =>
                /\ cur'[c].terminal # "completed"
                /\ ~cur'[c].appended
                /\ Hist(conversations', cur[c].conversation_id)
                        = Hist(conversations, cur[c].conversation_id)]_vars

\* C12: within one connection there is at most one generation in flight.  The
\* handler reads the next inbound frame only from its receive point, after the
\* terminal event of the request before it was delivered as the last frame of
\* the connection; so the frames of one task are contiguous on the connection.
C12_FramesContiguous ==
    \A c \in Conns : \A i, k \in 1..Len(out[c]) :
        (i < k /\ out[c][i].task_id = out[c][k].task_id) =>
            \A j \in i..k : out[c][j].task_id = out[c][i].task_id

C12_OneInFlight ==
    /\ []C12_FramesContiguous
    /\ [][\A c \in Conns :
            nrecv'[c] # nrecv[c] =>
                /\ pc[c] = "recv"
                /\ cur[c].kind \in {"chat", "empty", "parse"} =>
                      /\ cur[c].terminal # "none"
                      /\ Len(out[c]) >= 1
                      /\ out[c][Len(out[c])].task_id = cur[c].task_id
                      /\ IsTerminal(out[c][Len(out[c])])]_vars

\* A connection streaming the content of its second generation, the first one
\* having streamed content and ended before the second frame was read.
C12_Witness ==
    \E c \in Conns :
        /\ nrecv[c] = 2
        /\ pc[c] = "read"
        /\ Len(out[c]) >= 3
        /\ out[c][1].event_type = "content"
        /\ out[c][1].task_id # cur[c].task_id
        /\ out[c][Len(out[c])].event_type = "content"
        /\ out[c][Len(out[c])].task_id = cur[c].task_id

\* C13: when two connections run overlapping exchanges on one conversation id,
\* no append is lost or corrupted and an appended turn is visible to every
\* prompt rendered afterwards.  The step that takes a chat request extends the
\* history of its id by exactly its user turn and renders its prompt from the
\* whole history as it then is; the step that closes a generation extends the
\* history by exactly its assistant turn; the turns of the other connection
\* stay where they are, intact.
C13_AppendsAreAtomic ==
    [][\A c \in Conns :
        LET id == cur'[c].conversation_id
            old == Hist(conversations, id)
            new == Hist(conversations', id)
        IN  /\ (nrecv'[c] # nrecv[c] /\ pc'[c] = "open") =>
                  /\ new = Append(old, UserTurn(cur'[c].message))
                  /\ cur'[c].prompt = RenderPrompt(new)
            /\ (cur'[c].appended /\ ~cur[c].appended) =>
                  new = Append(old, AssistantTurn(cur[c].full_response))]_vars

\* Every turn in a history was put there whole by a request of some connection.
C13_TurnsIntact ==
    \A id \in DOMAIN conversations : \A i \in 1..Len(conversations[id]) :
        LET turn == conversations[id][i]
        IN  \/ \E c \in Conns : turn = UserTurn(Strip(OwnText(c)))
            \/ /\ turn.role = "assistant"
               /\ \A k \in 1..Len(turn.content) :
                     \E n \in 1..MaxLines : turn.content[k] = Letters[n]

C14_WellFormed(f) ==
    /\ f.event_type \in {"content", "completed", "error"}
    /\ f.task_id \notin {None, Missing, Falsy}
    /\ f.conversation_id \notin {Missing, Falsy}
    /\ f.conversation_id = None =>
          (f.event_type = "error" /\ f.error_message = InvalidJson)
    /\ (f.event_type = "error" /\ f.error_message = InvalidJson) =>
          f.conversation_id = None

C14_FrameShape ==
    \A c \in Conns : \A i \in 1..Len(out[c]) : C14_WellFormed(out[c][i])

\* One connection has been sent a frame of every kind: the parse-error frame,
\* and the frames of a request that resolved its conversation id.
C14_Witness ==
    \E c \in Conns :
        /\ Len(out[c]) >= 3
        /\ out[c][1].conversation_id = None
        /\ out[c][2].event_type = "content"
        /\ out[c][Len(out[c])].event_type \in {"completed", "error"}
        /\ out[c][Len(out[c])].conversation_id # None

\* C15: all frames of one request carry one task id and one conversation id,
\* the client's when it sent one and otherwise a generated one that the content
\* events and the terminal event all echo; and a task id is fresh for each
\* request.
TaskIds(frames) == {frames[i].task_id : i \in 1..Len(frames)}

C15_OneIdPerTask ==
    /\ \A c, d \in Conns : \A i \in 1..Len(out[c]) : \A j \in 1..Len(out[d]) :
          out[c][i].task_id = out[d][j].task_id =>
              (c = d /\ out[c][i].conversation_id = out[d][j].conversation_id)
    /\ \A c \in Conns : \A i \in 1..Len(out[c]) :
          out[c][i].task_id = cur[c].task_id =>
              /\ cur[c].kind \in {"parse", "empty", "chat"}
              /\ cur[c].kind # "parse" =>
                    out[c][i].conversation_id = cur[c].conversation_id
    /\ \A t \in DOMAIN requests : \A c \in Conns : \A i \in 1..Len(out[c]) :
          out[c][i].task_id = t =>
              out[c][i].conversation_id = requests[t].conversation_id

C15_Correlation ==
    /\ []C15_OneIdPerTask
    /\ [][\A c \in Conns :
            (nrecv'[c] # nrecv[c] /\ cur'[c].kind \in {"parse", "empty", "chat"}) =>
                /\ cur'[c].task_id \notin
                        UNION {TaskIds(out[d]) : d \in Conns}
                            \cup DOMAIN requests
                            \cup {cur[d].task_id : d \in Conns}
                            \cup {cur[d].conversation_id : d \in Conns}
                            \cup DOMAIN conversations
                /\ cur'[c].task_id # cur'[c].conversation_id
                /\ cur'[c].kind # "parse" =>
                      IF cur'[c].supplied # Missing
                      THEN cur'[c].conversation_id = cur'[c].supplied
                      ELSE cur'[c].conversation_id \notin
                              DOMAIN conversations \cup ClientIds
                                \cup {cur[d].conversation_id : d \in Conns}
                                \cup {None, Missing, Falsy}]_vars

\* A connection whose first request came without a conversation id and got
\* content and `completed` under one generated id, and whose second request
\* came with the client's id and another task id.
C15_Witness ==
    \E c \in Conns :
        /\ Len(out[c]) >= 3
        /\ out[c][1].event_type = "content"
        /\ out[c][1].conversation_id \notin ClientIds
        /\ out[c][2].event_type = "completed"
        /\ out[c][2].task_id = out[c][1].task_id
        /\ out[c][2].conversation_id = out[c][1].conversation_id
        /\ out[c][Len(out[c])].conversation_id \in ClientIds
        /\ out[c][Len(out[c])].task_id # out[c][1].task_id

\* C16: liveness of a request.  While the client stays connected, every accepted
\* request with a non-empty message reaches its terminal event and the handler
\* becomes ready to read again.  A finite run refutes it when it ends in a
\* state where the request has no terminal event, the client is still connected,
\* no send has raised, and the handler has stopped for good.
C16_NoRequestAbandoned ==
    \A c \in Conns :
        (cur[c].kind = "chat" /\ cur[c].terminal = "none"
            /\ open[c] /\ ~cur[c].raised /\ running) =>
                pc[c] \in {"open", "read", "finish"}

\* C17: connections run independently.  Whatever the other connections are
\* doing (suspended in an upstream read or in a send), a connection can take the
\* next step of its own handler: be accepted, have its request taken, its
\* upstream call opened, its stream read to the end and its terminal event
\* sent; and a step of one handler leaves the handler, the locals and the
\* frames of every other connection as they are.
C17_NotBlocked ==
    running =>
        \A d \in Conns :
            /\ pc[d] = "new" => ENABLED Connect(d)
            /\ (pc[d] = "recv" /\ open[d] /\ SumRecv(Conns) < MaxFrames) =>
                  ENABLED RecvChat(d, OwnText(d), Missing)
            /\ pc[d] = "open" => ENABLED OpenUpstream(d, "ok", "500")
            /\ pc[d] = "read" => ENABLED EndOfStream(d)
            /\ (pc[d] = "read" /\ cur[d].nlines < MaxLines) =>
                  ENABLED ReadLine(d, [kind |-> "chunk", response |-> <<"x">>,
                                       done |-> TRUE])
            /\ pc[d] = "finish" => ENABLED Finish(d)

C17_Independent ==
    /\ []C17_NotBlocked
    /\ [][\A c \in Conns :
            (pc'[c] # pc[c] \/ cur'[c] # cur[c] \/ out'[c] # out[c]) =>
                \A d \in Conns \ {c} :
                    /\ pc'[d] = pc[d]
                    /\ cur'[d] = cur[d]
                    /\ out'[d] = out[d]
                    /\ open'[d] = open[d]]_vars

\* One connection is suspended in its upstream read while another, whose
\* request came later (its history began with the turn of the first), has been
\* streamed content and its `completed` event.
C17_Witness ==
    \E c, d \in Conns :
        /\ c # d
        /\ pc[c] = "read"
        /\ cur[d].terminal = "completed"
        /\ cur[d].before = <<UserTurn(cur[c].message)>>
        /\ cur[c].conversation_id = cur[d].conversation_id
        /\ Len(out[d]) = 2
        /\ out[d][1].event_type = "content"
        /\ out[c] = <<>>

\* ==================================================== ddtrace-llm-wrapper.py
\* One call of a wrapped OllamaClient method.  The original method is given by
\* what it would do when called directly: the chunks it yields (or the result it
\* returns) and how it ends.  The wrapper is run step by step against it.

\* Chunks the original yields in one call, at most.
MaxChunks == 2
\* Calls of instrument_ollama_client on the one client, at most.
MaxInstrument == 2

gateway == <<conversations, running, pc, open, cur, out, requests, nrecv, nextUuid>>

\* The text of a chunk (chunk.message.content, chunk.response): the attribute is
\* absent, or it is a string, empty or not.
ChunkTexts == {Missing, "", "a", "b"}
\* A chunk: its text, its `done` flag, and its eval_count (0 when the attribute
\* is absent or null: `getattr(chunk, "eval_count", None) or 0`).
Chunks == [text : ChunkTexts, done : BOOLEAN, eval_count : {0}]
            \cup [text : {"", "b"}, done : {TRUE}, eval_count : {7}]

\* How the original ends: it returns, it raises an Exception, or a
\* BaseException that is no Exception passes through it (asyncio.CancelledError
\* when the task is cancelled at one of its awaits).
Endings == {"return", "Exception", "CancelledError"}

\* The result of the original embed: a dict with its "embeddings", or without
\* that key.
EmbedResults == {[has |-> TRUE, embeddings |-> <<>>],
                 [has |-> TRUE, embeddings |-> <<"v1", "v2">>],
                 [has |-> FALSE, embeddings |-> <<>>]}

RECURSIVE SeqsUpTo(_, _)
SeqsUpTo(S, n) ==
    IF n = 0 THEN {<<>>}
    ELSE LET shorter == SeqsUpTo(S, n - 1)
         IN  shorter \cup {Append(s, x) : s \in shorter, x \in S}

\* LLMObs.llm(...) / LLMObs.embedding(...) / LLMObs.workflow(...): a span with
\* no annotation yet.  `finishes` counts the calls of its finish().
NewSpan(name) ==
    [name |-> name, annotations |-> <<>>, finished |-> FALSE, finishes |-> 0]
\* LLMObs.annotate(span=span, ...): one more annotation on the span.
Annotate(span, what) == [span EXCEPT !.annotations = Append(@, what)]
\* What is annotated: the input, the error (its class), the output (its text
\* and its token or embedding count).
InputData == [what |-> "input", text |-> "", count |-> 0]
ErrorData(class) == [what |-> "error", text |-> class, count |-> 0]
OutputData(text, count) == [what |-> "output", text |-> text, count |-> count]
\* span.finish()
FinishSpan(span) == [span EXCEPT !.finished = TRUE, !.finishes = @ + 1]

\* "".join(accumulated)
RECURSIVE JoinText(_)
JoinText(parts) == IF parts = <<>> THEN "" ELSE Head(parts) \o JoinText(Tail(parts))

\* 0 when no final response was seen, else its eval_count.  final_response is
\* kept as a list: empty for None, else the one chunk.
TokensOf(final_response) ==
    IF final_response = <<>> THEN 0 ELSE final_response[1].eval_count

\* The annotation of the output: the text and the token count.
OutputOf(w) == OutputData(JoinText(w.accumulated), TokensOf(w.final_response))

\* The methods of an OllamaClient that a caller uses.  chat_complete calls
\* self.chat and consumes its stream.
Methods == {"chat", "chat_complete", "generate", "embed"}

\* A client as constructed: for each method, the number of wrappers around it.
OriginalClient == [m \in Methods |-> 0]

\* A mutation of instrument_ollama_client: chat_complete is wrapped as well.
InstrumentAlsoChatComplete(client) == [m \in Methods |-> client[m] + 1]

\* instrument_ollama_client: chat, generate and embed of the instance are
\* replaced by the wrapper of what they were (`client.chat.__func__`, which is
\* the earlier wrapper when the client was instrumented before); chat_complete
\* is left alone.
InstrumentOllamaClient(client) ==
    [m \in Methods |-> IF m = "chat_complete" THEN client[m] ELSE client[m] + 1]

\* The name of the span a wrapper of method m begins.
SpanName(m) ==
    CASE m = "chat" -> "ollama.chat_stream"
      [] m = "generate" -> "ollama.generate"
      [] m = "embed" -> "ollama.embed"
      [] OTHER -> "ollama.chat_complete"

\* The spans begun by one call of `method` on the client, outermost first: one
\* by each wrapper around the method, and for chat_complete those of the
\* self.chat it calls.
SpansOf(client, method) ==
    [i \in 1..client[method] |-> SpanName(method)]
        \o (IF method = "chat_complete"
            THEN [i \in 1..client["chat"] |-> SpanName("chat")]
            ELSE <<>>)

\* The wrapped method a call of `method` runs.
KindOf(method) == IF method = "chat_complete" THEN "chat" ELSE method

\* The locals of `wrapper` before the call, on a client not yet instrumented.
NoCall ==
    [kind |-> "none", chunks |-> <<>>, result |-> <<>>, ending |-> "return",
     at |-> "new", pos |-> 0, yielded |-> <<>>, accumulated |-> <<>>,
     final_response |-> <<>>, completed |-> FALSE, span |-> NewSpan("none"),
     outcome |-> "none", returned |-> <<>>,
     method |-> "none", client |-> OriginalClient, instrumented |-> 0,
     spans |-> <<>>]

WrapInit ==
    /\ GatewayInit
    /\ ingest = Unused
    /\ notify = Unused
    /\ wrap \in
         {[NoCall EXCEPT !.method = m, !.kind = KindOf(m), !.chunks = cs,
                         !.ending = e] :
              m \in {"chat", "chat_complete", "generate"},
              cs \in SeqsUpTo(Chunks, MaxChunks), e \in Endings}
         \cup {[NoCall EXCEPT !.method = "embed", !.kind = "embed",
                              !.result = <<r>>, !.ending = e] :
              r \in EmbedResults, e \in Endings}
         \cup {[NoCall EXCEPT !.method = "workflow", !.kind = "workflow",
                              !.result = <<r>>, !.ending = e] :
              r \in EmbedResults, e \in Endings}

\* instrument_ollama_client(client), before the call.
WrapInstrument ==
    /\ wrap.kind # "workflow"
    /\ wrap.at \in {"new", "idle"}
    /\ wrap.instrumented < MaxInstrument
    /\ wrap' = [wrap EXCEPT !.client = InstrumentOllamaClient(@),
                            !.instrumented = @ + 1,
                            !.at = "idle"]
    /\ UNCHANGED <<gateway, ingest, notify>>

\* The wrapper is entered: the span is made and its input annotated.
WrapCall ==
    /\ wrap.at = "idle"
    /\ wrap' = [wrap EXCEPT
            !.spans = SpansOf(wrap.client, wrap.method),
            !.span = Annotate(NewSpan(IF wrap.kind = "chat" THEN "ollama.chat_stream"
                                      ELSE IF wrap.kind = "generate" THEN "ollama.generate"
                                      ELSE "ollama.embed"), InputData),
            !.at = IF wrap.kind = "embed" THEN "awaiting" ELSE "iterating"]
    /\ UNCHANGED <<gateway, ingest, notify>>

\* One iteration of `async for chunk in original_method(...)`: the text of the
\* chunk is collected when there is some, a `done` chunk is kept as the final
\* response, and the chunk is yielded to the caller.
WrapChunk ==
    /\ wrap.kind \in {"chat", "generate"}
    /\ wrap.at = "iterating"
    /\ wrap.pos < Len(wrap.chunks)
    /\ LET chunk == wrap.chunks[wrap.pos + 1]
       IN  wrap' = [wrap EXCEPT
                !.pos = @ + 1,
                !.accumulated = IF chunk.text \in {Missing, ""} THEN @
                                ELSE Append(@, chunk.text),
                !.final_response = IF chunk.done THEN <<chunk>> ELSE @,
                !.yielded = Append(@, chunk)]
    /\ UNCHANGED <<gateway, ingest, notify>>

\* A mutation of the streaming wrappers: the span is finished where the
\* wrapper returns or handles an exception, not in a `finally` clause.
FinallyNotOnClose(w) ==
    [w EXCEPT
        !.span = IF w.outcome = "closed" THEN @
                 ELSE FinishSpan(
                        IF w.kind = "chat" /\ (w.completed \/ w.accumulated # <<>>)
                        THEN Annotate(@, OutputOf(w)) ELSE @),
        !.at = "done"]

\* The `finally` clause of a streaming wrapper.  _wrap_chat annotates the output
\* there, when the loop ended or some text was collected; _wrap_generate has
\* annotated it at the end of its try block.
Finally(w) ==
    [w EXCEPT
        !.span = FinishSpan(
            IF w.kind = "chat" /\ (w.completed \/ w.accumulated # <<>>)
            THEN Annotate(@, OutputOf(w)) ELSE @),
        !.at = "done"]

\* The original is exhausted: the loop ends and the wrapper returns.
WrapReturn ==
    /\ wrap.kind \in {"chat", "generate"}
    /\ wrap.at = "iterating"
    /\ wrap.pos = Len(wrap.chunks)
    /\ wrap.ending = "return"
    /\ wrap' = Finally([wrap EXCEPT
            !.completed = (wrap.kind = "chat"),
            !.span = IF wrap.kind = "generate" THEN Annotate(@, OutputOf(wrap)) ELSE @,
            !.outcome = "returned"])
    /\ UNCHANGED <<gateway, ingest, notify>>

\* A mutation of the except clause: the exception is annotated and swallowed.
OnRaiseSwallows(w) ==
    [w EXCEPT !.span = Annotate(@, ErrorData(w.ending)), !.outcome = "returned"]

\* An exception leaves the original: `except Exception` annotates it and
\* raises it again; an exception that is no Exception is not caught at all.
OnRaise(w) ==
    [w EXCEPT
        !.span = IF w.ending = "Exception" THEN Annotate(@, ErrorData(w.ending)) ELSE @,
        !.outcome = w.ending]

\* The original raises inside the loop.
WrapRaise ==
    /\ wrap.kind \in {"chat", "generate"}
    /\ wrap.at = "iterating"
    /\ wrap.pos = Len(wrap.chunks)
    /\ wrap.ending # "return"
    /\ wrap' = Finally(OnRaise(wrap))
    /\ UNCHANGED <<gateway, ingest, notify>>

\* The caller stops iterating and closes the generator: GeneratorExit is raised
\* at the yield, which `except Exception` does not catch.
WrapClose ==
    /\ wrap.kind \in {"chat", "generate"}
    /\ wrap.at = "iterating"
    /\ wrap.pos >= 1
    /\ wrap' = Finally([wrap EXCEPT !.outcome = "closed"])
    /\ UNCHANGED <<gateway, ingest, notify>>

\* len(result.get("embeddings", []))
EmbeddingCount(result) ==
    IF result.has THEN Len(result.embeddings) ELSE 0

\* _wrap_embed: the original is awaited; its result is annotated and returned,
\* its exception annotated and raised again; the span is finished.
WrapEmbed ==
    /\ wrap.kind = "embed"
    /\ wrap.at = "awaiting"
    /\ wrap' =
         IF wrap.ending = "return"
         THEN [wrap EXCEPT
                !.span = FinishSpan(Annotate(@, OutputData("", EmbeddingCount(wrap.result[1])))),
                !.returned = wrap.result,
                !.outcome = "returned",
                !.at = "done"]
         ELSE [OnRaise(wrap) EXCEPT !.span = FinishSpan(@), !.at = "done"]
    /\ UNCHANGED <<gateway, ingest, notify>>

\* traced_llm_workflow, async_wrapper and sync_wrapper alike: the decorated
\* function is called and the workflow span is made.
WorkflowCall ==
    /\ wrap.kind = "workflow"
    /\ wrap.at = "new"
    /\ wrap' = [wrap EXCEPT !.span = NewSpan("llm.workflow"),
                            !.at = "awaiting"]
    /\ UNCHANGED <<gateway, ingest, notify>>

\* The decorated function ends: its result is returned, its exception
\* annotated and raised again; the span is finished in the `finally` clause.
WorkflowEnd ==
    /\ wrap.kind = "workflow"
    /\ wrap.at = "awaiting"
    /\ wrap' =
         IF wrap.ending = "return"
         THEN [wrap EXCEPT !.span = FinishSpan(@), !.returned = wrap.result,
                           !.outcome = "returned", !.at = "done"]
         ELSE [OnRaise(wrap) EXCEPT !.span = FinishSpan(@), !.at = "done"]
    /\ UNCHANGED <<gateway, ingest, notify>>

WrapNext ==
    \/ WrapInstrument
    \/ WrapCall
    \/ WrapChunk
    \/ WrapReturn
    \/ WrapRaise
    \/ WrapClose
    \/ WrapEmbed
    \/ WorkflowCall
    \/ WorkflowEnd

WrapSpec == WrapInit /\ [][WrapNext]_vars

\* The span carries an annotation of the error.
ErrorAnnotated(w) ==
    \E i \in 1..Len(w.span.annotations) : w.span.annotations[i].what = "error"

\* What the caller of the wrapper has seen is what a caller of the original
\* would have seen: the chunks so far, in order and unchanged, and at the end
\* the same return or the same exception.
SameAsOriginal(w) ==
    /\ w.yielded = SubSeq(w.chunks, 1, w.pos)
    /\ w.at = "done" =>
          /\ w.outcome \in {"returned", "closed"} \cup Endings
          /\ w.outcome = "returned" =>
                (w.ending = "return" /\ w.yielded = w.chunks /\ w.returned = w.result)
          /\ w.outcome \in Endings => w.outcome = w.ending
          /\ w.outcome # "closed" => w.pos = Len(w.chunks)
          /\ w.span.finished

\* C18: the tracing wrappers do not alter the wrapped call.  A wrapped stream
\* yields exactly the chunks of the original, a wrapped embed returns the
\* original result, and any exception the original raises reaches the caller
\* after it was annotated on the span.
C18_Transparent ==
    /\ SameAsOriginal(wrap)
    /\ (wrap.at = "done" /\ wrap.outcome \in Endings) => ErrorAnnotated(wrap)

\* C18 as amended: the same, the annotation being owed only to an exception
\* that derives from Exception; any other (asyncio.CancelledError) reaches the
\* caller unchanged and not annotated.
C18_TransparentBarBaseException ==
    /\ SameAsOriginal(wrap)
    /\ (wrap.at = "done" /\ wrap.outcome \in Endings) =>
          (ErrorAnnotated(wrap) <=> wrap.outcome = "Exception")
    /\ (wrap.at = "done" /\ wrap.outcome \notin Endings) => ~ErrorAnnotated(wrap)

\* A wrapped chat stream that yielded two chunks and then let the exception of
\* the original through, annotated.
C18_Witness ==
    /\ wrap.kind = "chat"
    /\ wrap.at = "done"
    /\ Len(wrap.yielded) = 2
    /\ wrap.yielded[1].text = "a"
    /\ wrap.outcome = "Exception"
    /\ ErrorAnnotated(wrap)


\* ================================================= ingest-project-readmes.py
\* Runs of the ingestion over the same README files, against one table
\* project_readme_chunks.

\* Chunks the READMEs are split into, at most.
MaxReadmeChunks == 2
\* Runs of the ingestion, at most.
MaxRuns == 2

SectionTitles == {"Overview", "Usage"}
Contents == {"Install it with make install.", "Run it with make run; see docs."}

\* hashlib.sha256(content.encode()).hexdigest()[:16]
Sha256Hex16(content) ==
    CASE content = "Install it with make install." -> "5c1f0e6a9d3b7742"
      [] content = "Run it with make run; see docs." -> "e07a41b2c8d95f13"

\* A mutation of Chunk: the hash is taken over the section title and the
\* content.
ChunkHashesTitleToo(section_title, content) ==
    [section_title |-> section_title, content |-> content,
     content_hash |-> Sha256Hex16(content) \o "/" \o section_title]

\* Chunk(...): __post_init__ fills the content_hash in from the content.
Chunk(section_title, content) ==
    [section_title |-> section_title, content |-> content,
     content_hash |-> Sha256Hex16(content)]

\* chunk_readme over every project: the chunks of the unchanged documents, the
\* same list in every run.
ReadmeChunks ==
    SeqsUpTo({Chunk(s, c) : s \in SectionTitles, c \in Contents}, MaxReadmeChunks)
        \ {<<>>}

\* The row a chunk is stored as.
RowOf(id, chunk) ==
    [id |-> id, content_hash |-> chunk.content_hash, content |-> chunk.content,
     section_title |-> chunk.section_title]

\* A mutation of UPSERT_SQL: a plain INSERT into a table without the UNIQUE
\* constraint.
UpsertAlwaysInserts(table, id, chunk) ==
    table \cup {RowOf(id, chunk)}

\* UPSERT_SQL: INSERT ... ON CONFLICT (content_hash) DO UPDATE SET ...: the row
\* with the chunk's content_hash takes the chunk's columns and keeps its id;
\* without such a row one is inserted under the next id of the sequence.
Upsert(table, id, chunk) ==
    IF \E r \in table : r.content_hash = chunk.content_hash
    THEN {IF r.content_hash = chunk.content_hash THEN RowOf(r.id, chunk) ELSE r :
              r \in table}
    ELSE table \cup {RowOf(id, chunk)}

\* The table before the first run: empty, or with a row of an earlier ingestion.
InitialTables ==
    {{}, {RowOf(1, Chunk("Overview", "Install it with make install."))}}

IngestInit ==
    /\ GatewayInit
    /\ wrap = Unused
    /\ notify = Unused
    /\ \E cs \in ReadmeChunks : \E t \in InitialTables :
          ingest = [chunks |-> cs, table |-> t, nextId |-> Cardinality(t) + 1,
                    run |-> 0, i |-> 0, at |-> "idle", stored |-> 0,
                    logged |-> "none", before |-> t, contents |-> {},
                    after1 |-> {}, failed1 |-> FALSE, dry |-> FALSE,
                    failure |-> "none", embeds |-> 0, commits |-> 0,
                    rollbacks |-> 0, returned |-> <<>>, start |-> t,
                    runContents |-> {}]

\* main without --dry-run: one more run of the ingestion begins.  `returned`
\* is what ingest_project returns (empty until it does); embeds, commits and
\* rollbacks count the embedding requests, conn.commit() and conn.rollback()
\* of the run; start is the table as the run finds it and runContents the
\* contents of the chunks the run has stored.
IngestBegin ==
    /\ ingest.at = "idle"
    /\ ingest.run < MaxRuns
    /\ ingest' = [ingest EXCEPT !.run = @ + 1, !.i = 0, !.stored = 0,
                                !.logged = "none", !.at = "running",
                                !.dry = FALSE, !.failure = "none",
                                !.embeds = 0, !.commits = 0, !.rollbacks = 0,
                                !.returned = <<>>, !.start = ingest.table,
                                !.runContents = {}]
    /\ UNCHANGED <<gateway, wrap, notify>>

\* ingest_project, one chunk: it is embedded, stored and committed.
IngestStored ==
    /\ ingest.at = "running"
    /\ ingest.i < Len(ingest.chunks)
    /\ ingest' = [ingest EXCEPT
            !.table = Upsert(@, ingest.nextId, ingest.chunks[ingest.i + 1]),
            !.nextId = @ + 1,
            !.stored = @ + 1,
            !.logged = "none",
            !.failure = "none",
            !.embeds = @ + 1,
            !.commits = @ + 1,
            !.contents = @ \cup {ingest.chunks[ingest.i + 1].content},
            !.runContents = @ \cup {ingest.chunks[ingest.i + 1].content},
            !.i = @ + 1]
    /\ UNCHANGED <<gateway, wrap, notify>>

\* ingest_project, one chunk: get_embedding raises RuntimeError (the request
\* failed, or the answer has no embeddings), which is logged; nothing is
\* stored.
IngestEmbedFails ==
    /\ ingest.at = "running"
    /\ ingest.i < Len(ingest.chunks)
    /\ ingest' = [ingest EXCEPT !.i = @ + 1, !.failed1 = @ \/ ingest.run = 1,
                                !.logged = "Failed to embed/store chunk",
                                !.failure = "embedding", !.embeds = @ + 1]
    /\ UNCHANGED <<gateway, wrap, notify>>

\* ingest_project, one chunk: Ollama answers 200 with a body that is no JSON.
\* get_embedding calls resp.json() outside its try, so the error is no
\* RuntimeError; neither except clause of ingest_project takes it, it leaves
\* the loop, and main logs "Ingestion failed" and exits with status 1.
IngestEmbedRaises ==
    /\ ingest.at = "running"
    /\ ingest.i < Len(ingest.chunks)
    /\ ingest' = [ingest EXCEPT !.at = "idle", !.failed1 = @ \/ ingest.run = 1,
                                !.after1 = IF ingest.run = 1 THEN ingest.table ELSE @,
                                !.logged = "Ingestion failed",
                                !.failure = "embedding", !.embeds = @ + 1]
    /\ UNCHANGED <<gateway, wrap, notify>>

\* ingest_project, one chunk: the database raises psycopg2.Error, which is
\* logged; the transaction is rolled back.
IngestDbFails ==
    /\ ingest.at = "running"
    /\ ingest.i < Len(ingest.chunks)
    /\ ingest' = [ingest EXCEPT !.i = @ + 1, !.failed1 = @ \/ ingest.run = 1,
                                !.logged = "Database error storing chunk",
                                !.failure = "database", !.embeds = @ + 1,
                                !.rollbacks = @ + 1]
    /\ UNCHANGED <<gateway, wrap, notify>>

\* The run is over: ingest_project returns `stored`; the rows the first run
\* leaves are remembered.
IngestEnd ==
    /\ ingest.at = "running"
    /\ ingest.i = Len(ingest.chunks)
    /\ ingest' = [ingest EXCEPT
            !.at = "idle",
            !.returned = <<ingest.stored>>,
            !.after1 = IF ingest.run = 1 THEN ingest.table ELSE @]
    /\ UNCHANGED <<gateway, wrap, notify>>

\* main with --dry-run: ingest_project(project, conn=None, dry_run=True) logs
\* each chunk and returns their number; there is no connection.
IngestDryRun ==
    /\ ingest.at = "idle"
    /\ ingest' = [ingest EXCEPT !.dry = TRUE, !.logged = "DRY RUN",
                                !.failure = "none", !.embeds = 0,
                                !.commits = 0, !.rollbacks = 0,
                                !.returned = <<Len(ingest.chunks)>>]
    /\ UNCHANGED <<gateway, wrap, notify>>

IngestNext ==
    \/ IngestBegin
    \/ IngestStored
    \/ IngestEmbedFails
    \/ IngestEmbedRaises
    \/ IngestDbFails
    \/ IngestEnd
    \/ IngestDryRun

IngestSpec == IngestInit /\ [][IngestNext]_vars

\* The content of each hash in a table.
ContentPerHash(table) == {<<r.content_hash, r.content>> : r \in table}

\* A chunk whose content_hash is in the table has just been stored: there is
\* no more row than before, the row of that hash has kept its id and has the
\* chunk's columns, and every other row is as it was.
StoredOverExisting ==
    LET chunk == ingest.chunks[ingest.i + 1]
    IN  (/\ ingest'.nextId # ingest.nextId
         /\ \E r \in ingest.table : r.content_hash = chunk.content_hash)
        => /\ Cardinality(ingest'.table) = Cardinality(ingest.table)
           /\ \A r \in ingest.table :
                IF r.content_hash = chunk.content_hash
                THEN RowOf(r.id, chunk) \in ingest'.table
                ELSE r \in ingest'.table

\* A run after a first run that stored every chunk has ended: the table has
\* the rows the first run left.
SameRowsAsOneRun ==
    (ingest.at = "idle" /\ ingest.run >= 2 /\ ~ingest.failed1)
        => /\ Cardinality(ingest.table) = Cardinality(ingest.after1)
           /\ ContentPerHash(ingest.table) = ContentPerHash(ingest.after1)
           /\ {r.id : r \in ingest.table} = {r.id : r \in ingest.after1}

\* However often a chunk was stored, and in whichever run, the table has the
\* rows it had before the first run and one row for each content stored since,
\* under the hash of that content.
OneRowPerStoredHash ==
    LET expected == ContentPerHash(ingest.before)
                        \cup {<<Sha256Hex16(c), c>> : c \in ingest.contents}
    IN  /\ ContentPerHash(ingest.table) = expected
        /\ Cardinality(ingest.table) = Cardinality(expected)

\* C19: ingestion is an idempotent upsert keyed by content hash.  Storing a
\* chunk whose content_hash already exists updates that row instead of adding
\* one, so running the ingestion twice over unchanged documents leaves the same
\* set of rows (same count, same content per hash) as running it once.
C19_IdempotentUpsert ==
    /\ []SameRowsAsOneRun
    /\ []OneRowPerStoredHash
    /\ [][StoredOverExisting]_vars

\* Two runs that stored both chunks of the documents, the second of them over
\* the two rows of the first.
C19_Witness ==
    /\ ingest.at = "idle"
    /\ ingest.run = 2
    /\ ~ingest.failed1
    /\ ingest.stored = 2
    /\ Cardinality(ingest.table) = 2
    /\ Cardinality(ingest.after1) = 2


\* ------------------------------------------------------------------ C20
\* The step opens the upstream request of the exchange connection c is in.
OpensFor(c) ==
    /\ pc[c] = "open"
    /\ cur[c].task_id \in DOMAIN requests'
    /\ \/ cur[c].task_id \notin DOMAIN requests
       \/ requests'[cur[c].task_id] # requests[cur[c].task_id]

\* The prompt ends with the line of the user turn and, after it, the cue.
EndsWithUserTurn(prompt, message) ==
    LET tail == PromptLine(UserTurn(message)) \o <<"\n", "Assistant:">>
    IN  /\ Len(prompt) >= Len(tail)
        /\ SubSeq(prompt, Len(prompt) - Len(tail) + 1, Len(prompt)) = tail
        /\ Len(prompt) > Len(tail) => prompt[Len(prompt) - Len(tail)] = "\n"

\* C20: in every exchange the user turn is appended to the conversation's
\* history before the upstream request for that exchange is opened, and the
\* prompt sent upstream contains that user turn as its last turn before the
\* trailing cue.
C20_UserTurnBeforeRequest ==
    [][\A c \in Conns :
          OpensFor(c) =>
              LET cu == cur[c]
                  history == Hist(conversations, cu.conversation_id)
                  prompt == requests'[cu.task_id].prompt
              IN  /\ Len(history) > Len(cu.before)
                  /\ SubSeq(history, 1, Len(cu.before)) = cu.before
                  /\ history[Len(cu.before) + 1] = UserTurn(cu.message)
                  /\ prompt = RenderPrompt(Append(cu.before, UserTurn(cu.message)))
                  /\ EndsWithUserTurn(prompt, cu.message)]_vars

\* The request of the second exchange of a conversation is open: its prompt
\* has the two turns of the first exchange and ends with the new user turn.
C20_Witness ==
    \E c \in Conns :
        /\ pc[c] = "read"
        /\ Len(cur[c].before) = 2
        /\ cur[c].task_id \in DOMAIN requests
        /\ requests[cur[c].task_id].prompt =
              RenderPrompt(Append(cur[c].before, UserTurn(cur[c].message)))
        /\ EndsWithUserTurn(requests[cur[c].task_id].prompt, cur[c].message)


\* ------------------------------------------------------------------ C21
\* The exchange of c was accepted before the exchange of d on the same
\* conversation id: the history d found held more turns than the one c found.
AcceptedBefore(c, d) ==
    /\ c # d
    /\ cur[c].kind = "chat" /\ cur[d].kind = "chat"
    /\ cur[c].conversation_id = cur[d].conversation_id
    /\ pc[c] # "crashed" /\ pc[d] # "crashed"
    /\ Len(cur[c].before) < Len(cur[d].before)

\* C21: turns are appended in strict chronological request order.  For two
\* exchanges on one conversation id, the first accepted before the second, every
\* turn of the first (user and assistant) precedes every turn of the second in
\* the history: the assistant turn of the first, once appended, lies before the
\* user turn of the second.
C21_ChronologicalOrder ==
    \A c, d \in Conns :
        (AcceptedBefore(c, d) /\ cur[c].terminal = "completed") =>
            Len(cur[c].after) <= Len(cur[d].before)


\* ------------------------------------------------------------------ C22
\* The `response` of a line is a non-empty fragment of text.
HasFragment(line) ==
    line.kind = "chunk" /\ line.response \notin {<<>>, <<Missing>>, <<NonString>>}

\* The contents of the `content` frames among `frames`, in order.
ContentsOf(frames) ==
    LET cs == SelectSeq(frames, LAMBDA f : f.event_type = "content")
    IN  [i \in 1..Len(cs) |-> cs[i].content]

\* Connection c is inside the streaming loop of an exchange, or just after it.
Streaming(c) == cur[c].kind = "chat" /\ pc[c] \in {"read", "finish"}

\* The content events of the exchange in hand are the fragments accumulated so
\* far, one event for each, in order.
C22_EventsAreFragments ==
    \A c \in Conns :
        Streaming(c) =>
            ContentsOf(FramesOf(c, cur[c].task_id)) =
                [i \in 1..Len(cur[c].full_response) |-> <<cur[c].full_response[i]>>]

\* C22: for every upstream chunk read before the stop condition, a non-empty
\* `response` fragment produces exactly one `content` event carrying exactly
\* that fragment, emitted before the next chunk is read, and a chunk with an
\* empty or missing fragment produces no event; so the content events of a task
\* are the non-empty fragments in arrival order, none coalesced, reordered,
\* duplicated or left out.  Stated for the lines whose handling raises nothing.
C22_OneEventPerFragment ==
    /\ []C22_EventsAreFragments
    /\ [][\A c \in Conns :
            (pc[c] = "read" /\ cur'[c].nlines = cur[c].nlines + 1
                /\ cur'[c].fault = "none") =>
                \A line \in Lines(cur[c].nlines + 1) :
                    ReadLine(c, line) =>
                        IF HasFragment(line)
                        THEN /\ out'[c] = Append(out[c],
                                    ContentFrame(cur[c].task_id, line.response,
                                                 cur[c].conversation_id))
                             /\ cur'[c].full_response =
                                    cur[c].full_response \o line.response
                        ELSE /\ out' = out
                             /\ cur'[c].full_response = cur[c].full_response]_vars

\* An exchange that read a chunk with a fragment and then one without: one
\* content event, with the fragment of the first.
C22_Witness ==
    \E c \in Conns :
        /\ Streaming(c)
        /\ cur[c].nlines = 2
        /\ cur[c].full_response = <<"x">>
        /\ FramesOf(c, cur[c].task_id) =
              <<ContentFrame(cur[c].task_id, <<"x">>, cur[c].conversation_id)>>


\* ------------------------------------------------------------------ C23
\* The texts of `parts` one after the other.
RECURSIVE Concatenation(_)
Concatenation(parts) ==
    IF parts = <<>> THEN <<>> ELSE Head(parts) \o Concatenation(Tail(parts))

\* The assistant turn that the content events delivered for task t on
\* connection c amount to.
ReplyOf(frames, t) ==
    [role |-> "assistant", content |-> Concatenation(ContentsOf(FramesIn(frames, t)))]

\* After `completed` the history of the exchange ends with the assistant turn,
\* whose content is what the content events of the task carried, in order.
C23_CompletedAfterAppend ==
    \A c \in Conns :
        cur[c].terminal = "completed" =>
            /\ cur[c].appended
            /\ Len(cur[c].after) >= 1
            /\ cur[c].after[Len(cur[c].after)] = ReplyOf(out[c], cur[c].task_id)
            /\ LET fs == FramesOf(c, cur[c].task_id)
               IN  fs[Len(fs)].event_type = "completed"

\* C23: on clean completion the assistant turn appended to the history has as
\* content the concatenation, in order, of the fragments of all `content`
\* events emitted for the task (the empty text when there were none), and the
\* append happens before the `completed` event is emitted: the step that leaves
\* the loop appends that turn whether or not the `completed` frame can then be
\* sent, and no `completed` frame is sent without it.
C23_AssistantTurnIsTheStream ==
    /\ []C23_CompletedAfterAppend
    /\ [][\A c \in Conns :
            /\ (pc[c] = "finish" /\ cur'[c].appended) =>
                  Hist(conversations', cur[c].conversation_id) =
                      Append(Hist(conversations, cur[c].conversation_id),
                             ReplyOf(out[c], cur[c].task_id))
            /\ (Len(out'[c]) > Len(out[c])
                    /\ out'[c][Len(out'[c])].event_type = "completed") =>
                  (pc[c] = "finish" /\ cur'[c].appended)]_vars

\* A completed exchange of two content events, its assistant turn the two
\* fragments together.
C23_Witness ==
    \E c \in Conns :
        /\ cur[c].terminal = "completed"
        /\ cur[c].after[Len(cur[c].after)] =
              [role |-> "assistant", content |-> <<"x", "y">>]
        /\ Len(FramesOf(c, cur[c].task_id)) = 3


\* ------------------------------------------------------------------ C24
\* Once a chunk with its `done` flag was read the loop is left: the exchange is
\* not at its read point, and no line at all can be read for it.
C24_StoppedAtDone ==
    \A c \in Conns :
        (cur[c].kind = "chat" /\ cur[c].done) =>
            /\ pc[c] = "finish"
            /\ \A line \in UNION {Lines(n) : n \in 1..MaxLines} :
                  ~ENABLED ReadLine(c, line)

\* C24: the Bridge stops reading at the first chunk whose `done` flag is set.
\* That chunk's own non-empty fragment is still relayed and accumulated; no
\* chunk after it is read, relayed as a `content` event or added to the
\* assistant turn: from the `done` chunk to the end of the exchange no content
\* frame is added and the accumulated text stays, and the turn appended (none
\* when closing the response fails) is the text accumulated up to that chunk.
C24_StopsAtDone ==
    /\ []C24_StoppedAtDone
    /\ [][\A c \in Conns :
            /\ (pc[c] = "read" /\ cur'[c].nlines = cur[c].nlines + 1
                    /\ cur'[c].fault = "none") =>
                  \A line \in Lines(cur[c].nlines + 1) :
                      (ReadLine(c, line) /\ line.done) =>
                          /\ pc'[c] = "finish"
                          /\ HasFragment(line) =>
                                /\ out'[c] = Append(out[c],
                                        ContentFrame(cur[c].task_id, line.response,
                                                     cur[c].conversation_id))
                                /\ cur'[c].full_response =
                                        cur[c].full_response \o line.response
            /\ (pc[c] = "finish" /\ pc'[c] = "finish") =>
                  (cur'[c] = cur[c] /\ out'[c] = out[c])
            /\ (pc[c] = "finish" /\ pc'[c] # "finish") =>
                  /\ ContentsOf(FramesIn(out'[c], cur[c].task_id)) =
                        ContentsOf(FramesOf(c, cur[c].task_id))
                  /\ Hist(conversations', cur[c].conversation_id) =
                        IF cur'[c].appended
                        THEN Append(Hist(conversations, cur[c].conversation_id),
                                    [role |-> "assistant",
                                     content |-> cur[c].full_response])
                        ELSE Hist(conversations, cur[c].conversation_id)]_vars

\* An exchange stopped by a first chunk that had a fragment and the `done`
\* flag: one line read, its fragment relayed, the loop left.
C24_Witness ==
    \E c \in Conns :
        /\ pc[c] = "finish"
        /\ cur[c].done
        /\ cur[c].nlines = 1
        /\ cur[c].full_response = <<"x">>
        /\ FramesOf(c, cur[c].task_id) =
              <<ContentFrame(cur[c].task_id, <<"x">>, cur[c].conversation_id)>>


\* ------------------------------------------------------------------ C25
\* The line breaks in a text.
RECURSIVE Breaks(_)
Breaks(text) ==
    IF text = <<>> THEN 0
    ELSE (IF Head(text) = "\n" THEN 1 ELSE 0) + Breaks(Tail(text))

\* The lines of a text.
NumLines(text) == Breaks(text) + 1

\* The transcript of a history: for each turn, in order, its label, its
\* content and a line break; then the cue.
Transcript(history) ==
    Concatenation([i \in 1..Len(history) |->
        <<IF history[i].role = "user" THEN "User: " ELSE "Assistant: ">>
            \o history[i].content \o <<"\n">>]) \o <<"Assistant:">>

\* The line breaks inside the contents of the turns of a history.
RECURSIVE BreaksInside(_)
BreaksInside(history) ==
    IF history = <<>> THEN 0
    ELSE Breaks(Head(history).content) + BreaksInside(Tail(history))

\* C25: the prompt sent upstream is the whole current history of the
\* conversation, one line `User: <content>` or `Assistant: <content>` per turn
\* in history order, followed by a final line `Assistant:`; the number of lines
\* is always the number of turns in the history plus one.
C25_PromptIsHistory ==
    [][\A c \in Conns :
        OpensFor(c) =>
            LET history == Hist(conversations, cur[c].conversation_id)
                prompt == requests'[cur[c].task_id].prompt
            IN  /\ prompt = Transcript(history)
                /\ NumLines(prompt) = Len(history) + 1]_vars

\* C25 as amended: the prompt is the whole history as it is when the user
\* turn of the exchange is appended (a turn that another connection appends
\* before the request is opened is not in it), one entry per turn in history
\* order, the entries and the cue `Assistant:` separated by line breaks; it
\* has one line per turn and one for the cue, and one more for every line
\* break inside the content of a turn.
C25_PromptIsHistoryAtAppend ==
    [][\A c \in Conns :
        /\ (nrecv'[c] # nrecv[c] /\ pc'[c] = "open") =>
              LET history == Hist(conversations', cur'[c].conversation_id)
              IN  /\ history = Append(cur'[c].before, [role |-> "user",
                                                       content |-> cur'[c].message])
                  /\ cur'[c].prompt = Transcript(history)
                  /\ NumLines(cur'[c].prompt) =
                        Len(history) + 1 + BreaksInside(history)
        /\ OpensFor(c) =>
              LET history == Hist(conversations, cur[c].conversation_id)
                  mine == SubSeq(history, 1, Len(cur[c].before) + 1)
                  prompt == requests'[cur[c].task_id].prompt
              IN  /\ Len(history) > Len(cur[c].before)
                  /\ prompt = cur[c].prompt
                  /\ prompt = Transcript(mine)
                  /\ NumLines(prompt) = Len(mine) + 1 + BreaksInside(mine)]_vars

\* The request of a second exchange is open, the first having failed: the
\* prompt has the unanswered user turn, the new user turn and the cue.
C25_Witness ==
    \E c \in Conns :
        /\ pc[c] = "read"
        /\ cur[c].before = <<UserTurn(<<"h">>)>>
        /\ cur[c].task_id \in DOMAIN requests
        /\ requests[cur[c].task_id].prompt =
              <<"User: ", "h", "\n", "User: ", "h", "\n", "Assistant:">>
        /\ NumLines(requests[cur[c].task_id].prompt) = 3


\* ------------------------------------------------------------------ C26
\* The text the `error` event of a fault must have: for a rejected request one
\* that holds the status code, for a failed connection one that holds the
\* upstream address, for any other fault the description of the fault.
FixedForm(fault, msg) ==
    CASE fault = "HTTPStatusError" ->
            msg = <<"Ollama returned HTTP ", "500">> /\ Contains(msg, "500")
      [] fault = "ConnectError" ->
            Contains(msg, "http://localhost:11434")
                /\ msg[1] = "Cannot connect to Ollama at "
      [] OTHER ->
            msg \in {<<"str(exc): transport">>, <<"str(exc): decode">>,
                     <<"str(exc): send">>}

\* The `error` frames of task t among `frames`.
ErrorsIn(frames, t) ==
    SelectSeq(frames, LAMBDA f : f.task_id = t /\ f.event_type = "error")

\* No task has more than one `error` frame.
C26_OneErrorPerTask ==
    \A c \in Conns : \A i \in 1..Len(out[c]) :
        Len(ErrorsIn(out[c], out[c][i].task_id)) <= 1

\* C26: each upstream fault category maps to one `error` event of a fixed form
\* (status code, upstream address, or the fault's description), and exactly one
\* of the three handlers runs for a given fault: the step in which a fault is
\* met sends one frame, the `error` of that category, and nothing else happens
\* to the exchange (when that send raises, no frame at all).
C26_FaultToError ==
    /\ []C26_OneErrorPerTask
    /\ [][\A c \in Conns :
            (cur[c].kind = "chat" /\ cur[c].fault = "none"
                /\ cur'[c].fault # "none") =>
                /\ cur'[c].fault \in {"HTTPStatusError", "ConnectError", "Exception"}
                /\ \A o \in OpenOutcomes : \A code \in StatusCodes :
                      OpenUpstream(c, o, code) =>
                          cur'[c].fault = o
                /\ cur'[c].fault \in {"HTTPStatusError", "ConnectError"} =>
                      pc[c] = "open"
                /\ IF out'[c] # out[c]
                   THEN /\ Len(out'[c]) = Len(out[c]) + 1
                        /\ LET f == out'[c][Len(out'[c])]
                           IN  /\ out'[c] = Append(out[c],
                                    [task_id |-> cur[c].task_id,
                                     event_type |-> "error", content |-> <<>>,
                                     error_message |-> f.error_message,
                                     conversation_id |-> cur[c].conversation_id,
                                     is_complete |-> Missing])
                               /\ FixedForm(cur'[c].fault, f.error_message)
                        /\ cur'[c].terminal = "error"
                        /\ pc'[c] = "recv"
                   ELSE cur'[c].raised /\ pc'[c] \in {"gone", "crashed"}]_vars

\* One connection met a rejected request and then a failed connection: two
\* `error` frames, the first with the status code, the second with the address.
C26_Witness ==
    \E c \in Conns :
        /\ Len(out[c]) = 2
        /\ out[c][1].event_type = "error"
        /\ Contains(out[c][1].error_message, "500")
        /\ out[c][2].event_type = "error"
        /\ Contains(out[c][2].error_message, OLLAMA_HOST)
        /\ cur[c].fault = "ConnectError"


\* ------------------------------------------------------------------ C27
\* The peer of c has closed the connection while c was inside stream_ollama,
\* its upstream request open.
ClosedMidStream(c) == ~open[c] /\ pc[c] \in {"read", "finish"}

\* A handler whose peer is gone is inside the invocation that the close found,
\* waits at a receive that will raise, or has ended; it can take no request.
C27_NothingAfterClose ==
    \A c \in Conns :
        ~open[c] =>
            /\ pc[c] \in {"recv", "open", "read", "finish", "gone", "crashed"}
            /\ pc[c] = "recv" => (ENABLED RecvDisconnect(c) \/ ~running)
            /\ ~ENABLED (\E m \in MessageValues(c), cid \in SuppliedIds :
                            RecvChat(c, m, cid))

\* C27: if the client connection closes while a Bridge invocation is
\* mid-stream, the handler's loop exits on the disconnect.  After the close no
\* inbound frame of the connection is processed, no outbound frame is
\* delivered on it and no upstream request is opened for it; the first send
\* the invocation attempts ends the handler.
C27_ExitsOnDisconnect ==
    /\ []C27_NothingAfterClose
    /\ [][\A c \in Conns :
            /\ ~open[c] =>
                  /\ ~open'[c]
                  /\ nrecv'[c] = nrecv[c]
                  /\ out'[c] = out[c]
                  /\ pc'[c] # pc[c] => pc'[c] \in {"read", "finish", "gone", "crashed"}
                  /\ pc'[c] = "read" => pc[c] \in {"open", "read"}
            /\ ClosedMidStream(c) =>
                  /\ ~OpensFor(c)
                  /\ cur[c].task_id \in DOMAIN requests
                  /\ requests'[cur[c].task_id] = requests[cur[c].task_id]
                  /\ \A d \in Conns : OpensFor(d) => d # c
                  /\ cur'[c].task_id = cur[c].task_id
                  /\ (cur'[c].raised /\ ~cur[c].raised) =>
                        pc'[c] \in {"gone", "crashed"}]_vars

\* A handler that ended on the disconnect: the peer closed after a content
\* frame was delivered, and that frame is the last of the connection.
C27_Witness ==
    \E c \in Conns :
        /\ ~open[c]
        /\ pc[c] = "gone"
        /\ cur[c].kind = "chat"
        /\ cur[c].raised
        /\ cur[c].task_id \in DOMAIN requests
        /\ Len(out[c]) >= 1
        /\ out[c][Len(out[c])] =
              ContentFrame(cur[c].task_id, <<"x">>, cur[c].conversation_id)


\* ------------------------------------------------------------------ C28
\* C28: after instrument_ollama_client, chat, generate and embed are wrapped
\* and chat_complete is not, so one call of chat_complete (which calls
\* self.chat) begins exactly one span, not two, and one call of each of chat,
\* generate and embed begins exactly one span.  In general a call begins one
\* span for each time the client was instrumented, all of them under the name
\* of the wrapped method it runs.
C28_OneSpanPerCall ==
    /\ wrap.client["chat_complete"] = 0
    /\ \A m \in {"chat", "generate", "embed"} : wrap.client[m] = wrap.instrumented
    /\ (wrap.method \in Methods /\ wrap.at \notin {"new", "idle"}) =>
          /\ wrap.instrumented >= 1
          /\ Len(wrap.spans) = wrap.instrumented
          /\ \A i \in 1..Len(wrap.spans) :
                wrap.spans[i] =
                    (CASE wrap.method \in {"chat", "chat_complete"} -> "ollama.chat_stream"
                       [] wrap.method = "generate" -> "ollama.generate"
                       [] wrap.method = "embed" -> "ollama.embed")
          /\ wrap.instrumented = 1 => Len(wrap.spans) = 1

\* A call of chat_complete on a client instrumented once has run to its end
\* and begun the one span of the chat it called.
C28_Witness ==
    /\ wrap.method = "chat_complete"
    /\ wrap.instrumented = 1
    /\ wrap.at = "done"
    /\ wrap.outcome = "returned"
    /\ Len(wrap.yielded) = 2
    /\ wrap.spans = <<"ollama.chat_stream">>


\* ============================================ ingest-project-readmes.py, chunks
\* chunk_readme over one document.  A line is a sequence of characters; a
\* character of the model is "#", " ", a letter, or a run of text that counts
\* for its width.

\* Lines of a document, at most.
MaxDocLines == 4

\* The characters a run of text stands for.
Width(ch) == CASE ch = "text15" -> 15 [] ch = "text16" -> 16 [] OTHER -> 1

\* len(s)
RECURSIVE CharLen(_)
CharLen(s) == IF s = <<>> THEN 0 ELSE Width(Head(s)) + CharLen(Tail(s))

\* The lines a README is made of: two `## ` headers, a deeper header, `##` with
\* no title, two lines of text around the length limit, and an empty line.
DocLines ==
    {<<"#", "#", " ", "A">>, <<"#", "#", " ", "C">>, <<"#", "#", "#", " ", "B">>,
     <<"#", "#">>, <<"text15">>, <<"text16">>, <<>>}

\* text.split("\n"): at least one line.
Documents == SeqsUpTo(DocLines, MaxDocLines) \ {<<>>}

\* A mutation of the pattern: `^##+\s+(.+)`, a header of any depth from two.
HeaderMatchAnyDepth(line) ==
    \E k \in 3..Len(line) :
        /\ \A i \in 1..(k - 1) : line[i] = "#"
        /\ line[k] \in Space
        /\ Len(line) > k

\* re.match(r"^##\s+(.+)", line): two `#`, then whitespace, then at least one
\* more character.
HeaderMatch(line) ==
    /\ Len(line) >= 4
    /\ line[1] = "#" /\ line[2] = "#"
    /\ line[3] \in Space

\* header_match.group(1).strip()
HeaderTitle(line) == Strip(SubSeq(line, 3, Len(line)))

\* "\n".join(current_lines).strip()
ContentOf(current_lines) == Strip(Join(current_lines))

\* `if current_lines:` ... `if content and len(content) > 20: chunks.append(...)`
Flush(chunks, title, current_lines) ==
    IF /\ current_lines # <<>>
       /\ ContentOf(current_lines) # <<>>
       /\ CharLen(ContentOf(current_lines)) > 20
    THEN Append(chunks, [section_title |-> title,
                         content |-> ContentOf(current_lines)])
    ELSE chunks

ChunkInit ==
    /\ GatewayInit
    /\ wrap = Unused
    /\ notify = Unused
    /\ \E doc \in Documents :
          ingest = [lines |-> doc, pos |-> 0, current_title |-> <<"Overview">>,
                    current_lines |-> <<>>, chunks |-> <<>>, at |-> "loop"]

\* One iteration of `for line in lines`.
ChunkLine ==
    /\ ingest.at = "loop"
    /\ ingest.pos < Len(ingest.lines)
    /\ LET line == ingest.lines[ingest.pos + 1]
       IN  ingest' =
             IF HeaderMatch(line)
             THEN [ingest EXCEPT
                     !.chunks = Flush(@, ingest.current_title, ingest.current_lines),
                     !.current_title = HeaderTitle(line),
                     !.current_lines = <<line>>,
                     !.pos = @ + 1]
             ELSE [ingest EXCEPT
                     !.current_lines = Append(@, line),
                     !.pos = @ + 1]
    /\ UNCHANGED <<gateway, wrap, notify>>

\* After the loop: the last chunk is flushed and the list returned.
ChunkLast ==
    /\ ingest.at = "loop"
    /\ ingest.pos = Len(ingest.lines)
    /\ ingest' = [ingest EXCEPT
            !.chunks = Flush(@, ingest.current_title, ingest.current_lines),
            !.at = "done"]
    /\ UNCHANGED <<gateway, wrap, notify>>

ChunkNext ==
    \/ ChunkLine
    \/ ChunkLast

ChunkSpec == ChunkInit /\ [][ChunkNext]_vars

\* ------------------------------------------------------------------ C29
\* The line starts a `## ` header: `##`, a blank, and something after it.
StartsSection(line) ==
    /\ Len(line) >= 4
    /\ SubSeq(line, 1, 3) = <<"#", "#", " ">>

\* The lines at which a chunk of the document begins, in order: the first line
\* when it is no header, and every header line.
StartsOf(doc) ==
    SelectSeq([i \in 1..Len(doc) |-> i],
              LAMBDA i : i = 1 \/ StartsSection(doc[i]))

\* The chunk that begins at the k-th start: its lines run up to the line before
\* the next start, or to the end of the document.
SectionAt(doc, k) ==
    LET starts == StartsOf(doc)
        first == starts[k]
        last == IF k < Len(starts) THEN starts[k + 1] - 1 ELSE Len(doc)
    IN  [section_title |-> IF StartsSection(doc[first])
                           THEN SubSeq(doc[first], 4, Len(doc[first]))
                           ELSE <<"Overview">>,
         content |-> Strip(Join(SubSeq(doc, first, last)))]

\* The chunks of the document that are long enough, in document order.
SectionsOf(doc) ==
    SelectSeq([k \in 1..Len(StartsOf(doc)) |-> SectionAt(doc, k)],
              LAMBDA ch : CharLen(ch.content) > 20)

\* C29: chunk_readme splits a document at the lines that start a `## ` header
\* (a `###` or deeper header starts none).  Each chunk is the header line and
\* the lines after it up to the next `## ` header or the end; the text before
\* the first `## ` header is a chunk titled "Overview"; the chunks are in
\* document order; and a chunk whose stripped content is empty or at most 20
\* characters long is dropped.
C29_ChunksAreSections ==
    ingest.at = "done" => ingest.chunks = SectionsOf(ingest.lines)

\* A document of an overview with a deeper header inside and one section: two
\* chunks, the second of 21 characters.
C29_Witness ==
    /\ ingest.at = "done"
    /\ ingest.lines = <<<<"text16">>, <<"#", "#", "#", " ", "B">>,
                        <<"#", "#", " ", "A">>, <<"text16">>>>
    /\ Len(ingest.chunks) = 2
    /\ ingest.chunks[1].section_title = <<"Overview">>
    /\ ingest.chunks[2].section_title = <<"A">>
    /\ CharLen(ingest.chunks[2].content) = 21


\* ------------------------------------------------------------------ C30
\* The step is a chunk of a run failing, in its embedding or in the database.
ChunkFails ==
    /\ ingest.at = "running"
    /\ ingest'.embeds = ingest.embeds + 1
    /\ ingest'.failure # "none"

\* A failing chunk is skipped and no more: the loop is at the next chunk, the
\* table and the count are as they were, and a database error has rolled back.
SkipsOnlyThatChunk ==
    ChunkFails =>
        /\ ingest'.at = "running"
        /\ ingest'.i = ingest.i + 1
        /\ ingest'.table = ingest.table
        /\ ingest'.stored = ingest.stored
        /\ ingest'.rollbacks =
              ingest.rollbacks + (IF ingest'.failure = "database" THEN 1 ELSE 0)

\* A run that is over has gone through every chunk and returned the number of
\* chunks it embedded, stored and committed.
ProcessedAllAndCounted ==
    (ingest.at = "idle" /\ ingest.run >= 1 /\ ~ingest.dry)
        => /\ ingest.i = Len(ingest.chunks)
           /\ ingest.returned = <<ingest.stored>>
           /\ ingest.stored = ingest.commits
           /\ ingest.embeds = Len(ingest.chunks)

\* Each stored chunk has a commit of its own.
CommittedOnItsOwn ==
    ingest'.stored # ingest.stored /\ ingest.at = "running"
        => /\ ingest'.stored = ingest.stored + 1
           /\ ingest'.commits = ingest.commits + 1
           /\ ingest'.i = ingest.i + 1

\* A dry run asks for no embedding and writes nothing.
DryRunIsDry ==
    (ingest.at = "idle" /\ ingest'.dry)
        => /\ ingest'.embeds = 0
           /\ ingest'.commits = 0
           /\ ingest'.table = ingest.table
           /\ ingest'.returned = <<Len(ingest.chunks)>>

\* C30: ingest_project isolates per-chunk failures.  An embedding failure or a
\* database error on one chunk skips only that chunk (a database error also
\* rolls the transaction back) and the remaining chunks are still processed;
\* each stored chunk is committed on its own; the returned count is the number
\* of chunks embedded, stored and committed; and a dry run makes no embedding
\* request and no database write.
C30_IsolatesChunkFailures ==
    /\ [][SkipsOnlyThatChunk]_vars
    /\ []ProcessedAllAndCounted
    /\ [][CommittedOnItsOwn]_vars
    /\ [][DryRunIsDry]_vars


\* ------------------------------------------------------------------ C31
\* The turns of a role among the first k turns of a history.
TurnsOfRole(history, k, role) ==
    Cardinality({i \in 1..k : history[i].role = role})

\* Every prefix of the history has at least as many user turns as assistant
\* turns.
UserTurnsLead(history) ==
    \A k \in 1..Len(history) :
        TurnsOfRole(history, k, "user") >= TurnsOfRole(history, k, "assistant")

\* C31: in every reachable state and for every conversation, every prefix of
\* the history contains at least as many user turns as assistant turns: the
\* first turn is a user turn and no assistant turn is appended without an
\* earlier user turn for it, under any interleaving of connections and any mix
\* of successful and failed exchanges.
C31_UserTurnsLead ==
    \A id \in DOMAIN conversations : UserTurnsLead(conversations[id])

\* Two connections on one conversation: one exchange has failed after its user
\* turn, the other has completed, and the history holds both user turns and
\* the assistant turn.
C31_Witness ==
    /\ \E c \in Conns : cur[c].terminal = "error" /\ cur[c].conversation_id = "A"
    /\ \E c \in Conns : cur[c].terminal = "completed" /\ cur[c].conversation_id = "A"
    /\ "A" \in DOMAIN conversations
    /\ Len(conversations["A"]) = 3
    /\ conversations["A"][3].role = "assistant"


\* ------------------------------------------------------------------ C32
\* The wrapper has begun its span: it was entered and has not yet ended, or it
\* has ended.
SpanBegun(w) == w.at \in {"iterating", "awaiting", "done"}

\* The ways a wrapped call ends: it returns, an exception leaves the original
\* (an Exception, or one that is none), the consumer closes the generator.
WaysToEnd == {"returned", "closed"} \cup Endings

\* C32: every span begun by a tracing wrapper (_wrap_chat, _wrap_generate,
\* _wrap_embed, traced_llm_workflow) is finished exactly once on every way the
\* wrapped call can end: normal completion, an exception from the original
\* call, and, for the streaming wrappers, the consumer closing the generator
\* before the stream is exhausted.
C32_SpanFinishedOnce ==
    /\ (wrap.at \in {"iterating", "awaiting"}) => wrap.span.finishes = 0
    /\ wrap.at = "done" =>
          /\ wrap.outcome \in WaysToEnd
          /\ wrap.span.finishes = 1
          /\ wrap.span.finished

\* The consumer of a streaming wrapper has closed the generator after one chunk
\* of two, and the span is finished.
C32_Witness ==
    /\ wrap.kind \in {"chat", "generate"}
    /\ wrap.at = "done"
    /\ wrap.outcome = "closed"
    /\ Len(wrap.chunks) = 2
    /\ wrap.pos = 1
    /\ wrap.span.finishes = 1


\* ------------------------------------------------------------------ C33
\* The row is under the hash of a content the run has stored.
OfRun(r) == \E c \in ingest.runContents : r.content_hash = Sha256Hex16(c)

\* The rows of the table that the run has inserted or updated.
RowsOfRun == {r \in ingest.table : OfRun(r)}

\* A run is over and has reported its count of stored chunks.
RunOver ==
    /\ ingest.at = "idle"
    /\ ingest.run >= 1
    /\ ~ingest.dry
    /\ ingest.returned = <<ingest.stored>>

\* Chunks of the same content have the same hash, whatever their section.
HashOfContentOnly ==
    \A i, j \in 1..Len(ingest.chunks) :
        ingest.chunks[i].content = ingest.chunks[j].content
            => ingest.chunks[i].content_hash = ingest.chunks[j].content_hash

\* C33 as stated: the content hash of a chunk depends only on its content text,
\* so two chunks with identical content from different projects or sections
\* share one hash and the later upsert overwrites the earlier row: after an
\* ingestion run the number of rows equals the number of distinct contents
\* among the stored chunks, which can be smaller than the count of stored
\* chunks that the run reports.
C33_RowsAreDistinctContents ==
    /\ HashOfContentOnly
    /\ RunOver =>
          /\ Cardinality(ingest.table) = Cardinality(ingest.runContents)
          /\ Cardinality(ingest.runContents) <= ingest.stored

\* C33 as amended: the same of the rows the run inserted or updated; the rows
\* of other contents that the table had before the run are still there.
C33_RowsOfRunAreDistinctContents ==
    /\ HashOfContentOnly
    /\ RunOver =>
          /\ Cardinality(RowsOfRun) = Cardinality(ingest.runContents)
          /\ {r.content : r \in RowsOfRun} = ingest.runContents
          /\ {r \in ingest.table : ~OfRun(r)} = {r \in ingest.start : ~OfRun(r)}
          /\ Cardinality(ingest.runContents) <= ingest.stored
          /\ \A r \in RowsOfRun :
                \E i \in 1..Len(ingest.chunks) :
                    /\ ingest.chunks[i].content = r.content
                    /\ ingest.chunks[i].section_title = r.section_title

\* A run over two chunks of one content under two sections, on an empty table:
\* it reports two stored chunks and leaves one row, that of the later section.
C33_Witness ==
    /\ RunOver
    /\ ingest.run = 1
    /\ ingest.start = {}
    /\ Len(ingest.chunks) = 2
    /\ ingest.chunks[1].content = ingest.chunks[2].content
    /\ ingest.chunks[1].section_title = "Overview"
    /\ ingest.chunks[2].section_title = "Usage"
    /\ ingest.returned = <<2>>
    /\ Cardinality(ingest.table) = 1
    /\ \A r \in ingest.table : r.section_title = "Usage"


\* ============================================================ notify-server.py
\* The relay handles one request at a time (HTTPServer); the state is the
\* request last handled and what became of it.

\* Requests handled, at most.
MaxPosts == 2

\* The body of a POST, by what json.loads makes of it: no byte at all, text that
\* is no JSON, bytes that are no UTF-8, JSON that is no object (an array,
\* null), or an object.  Of an object the three keys the handler reads: absent,
\* a string, or (the title) a number.
ObjectBodies ==
    [kind : {"object"}, title : {Missing, "T", NonString},
     message : {Missing, "", "M"}, urgency : {Missing, "low", "normal", "high"}]
OtherBodies ==
    [kind : {"empty", "malformed", "undecodable", "array", "null"},
     title : {Missing}, message : {Missing}, urgency : {Missing}]
Bodies == ObjectBodies \cup OtherBodies

\* {}
EmptyObject ==
    [kind |-> "object", title |-> Missing, message |-> Missing, urgency |-> Missing]

\* `try: data = json.loads(body) if body else {}` / `except json.JSONDecodeError:
\* data = {}`.  Bytes that are no UTF-8 raise UnicodeDecodeError, which is no
\* JSONDecodeError.
LoadBody(body) ==
    CASE body.kind \in {"empty", "malformed"} -> [exc |-> "none", data |-> EmptyObject]
      [] body.kind = "undecodable" -> [exc |-> "UnicodeDecodeError", data |-> EmptyObject]
      [] OTHER -> [exc |-> "none", data |-> body]

\* data.get(key, default); a list or None has no `get`.
HasGet(data) == data.kind = "object"
Get(value, default) == IF value = Missing THEN default ELSE value

\* `if urgency not in ('critical', 'normal', 'low'): urgency = 'critical'`
ValidUrgency(urgency) ==
    IF urgency \in {"critical", "normal", "low"} THEN urgency ELSE "critical"

\* How notify-send goes: it exits with 0, it exits with another status
\* (CalledProcessError), or there is no such program (FileNotFoundError).
CommandOutcomes == {"ok", "CalledProcessError", "FileNotFoundError"}

\* subprocess.run([... title, notification_body], check=True): an argument that
\* is no string raises TypeError before any program is started.
RunCommand(title, notification_body, outcome) ==
    IF NonString \in {title, notification_body} THEN "TypeError" ELSE outcome

\* No request yet.  Of a request: its method and body, the arguments notify-send
\* was called with (none when it was not called), how the call went, the
\* status lines written, and the exception that left the handler.
NoExchange ==
    [method |-> "none", body |-> EmptyObject, argv |-> <<>>, ran |-> "none",
     status |-> <<>>, exc |-> "none"]

\* do_POST as a whole.
PostExchange(body, outcome) ==
    LET loaded == LoadBody(body)
        data == loaded.data
        x == [NoExchange EXCEPT !.method = "POST", !.body = body]
    IN  IF loaded.exc # "none" THEN [x EXCEPT !.exc = loaded.exc]
        ELSE IF ~HasGet(data) THEN [x EXCEPT !.exc = "AttributeError"]
        ELSE
          LET title == Get(data.title, "Datadog Webhook")
              message == Get(data.message, "")
              urgency == ValidUrgency(Get(data.urgency, "critical"))
              notification_body == IF message # "" THEN message ELSE title
              ran == RunCommand(title, notification_body, outcome)
              called == [x EXCEPT
                           !.argv = <<[urgency |-> urgency, title |-> title,
                                       body |-> notification_body]>>,
                           !.ran = ran]
          IN  CASE ran = "ok" -> [called EXCEPT !.status = <<200>>]
                [] ran \in {"CalledProcessError", "FileNotFoundError"} ->
                      [called EXCEPT !.status = <<500>>]
                [] OTHER -> [called EXCEPT !.exc = ran]

NotifyInit ==
    /\ GatewayInit
    /\ wrap = Unused
    /\ ingest = Unused
    /\ notify = [handled |-> 0, last |-> NoExchange]

\* NotifyHandler.do_POST
DoPost(body, outcome) ==
    /\ notify.handled < MaxPosts
    /\ notify' = [handled |-> notify.handled + 1,
                  last |-> PostExchange(body, outcome)]
    /\ UNCHANGED <<gateway, wrap, ingest>>

\* NotifyHandler.do_GET: the health check.
DoGet ==
    /\ notify.handled < MaxPosts
    /\ notify' = [handled |-> notify.handled + 1,
                  last |-> [NoExchange EXCEPT !.method = "GET", !.status = <<200>>]]
    /\ UNCHANGED <<gateway, wrap, ingest>>

NotifyNext ==
    \/ \E body \in Bodies, outcome \in CommandOutcomes : DoPost(body, outcome)
    \/ DoGet

NotifySpec == NotifyInit /\ [][NotifyNext]_vars

\* ------------------------------------------------------------------ C34
\* The POST last handled was answered with exactly one response: 200 when the
\* command succeeded, 500 when it failed or is not installed.
AnsweredOnce(x) ==
    /\ Len(x.status) = 1
    /\ x.ran \in CommandOutcomes
    /\ x.status[1] = IF x.ran = "ok" THEN 200 ELSE 500

\* A malformed body is taken for an empty payload: the notification has the
\* default title.
MalformedIsEmpty(x) ==
    x.body.kind \in {"malformed", "undecodable"} =>
        /\ Len(x.argv) = 1
        /\ x.argv[1].title = "Datadog Webhook"

\* The urgency of the notification is that of the payload when it is one of
\* critical, normal, low, and critical otherwise.
UrgencyReplaced(x) ==
    /\ Len(x.argv) = 1
    /\ x.argv[1].urgency =
          IF x.body.urgency \in {"critical", "normal", "low"}
          THEN x.body.urgency ELSE "critical"

\* C34: the notification relay answers every POST, whatever its body (empty,
\* malformed JSON, or valid JSON of any shape), with exactly one HTTP response:
\* 200 if the desktop notification command succeeded and 500 if it failed or is
\* not installed; a malformed body is treated as an empty payload with default
\* title, and an urgency outside {critical, normal, low} is replaced by
\* critical before the notification is sent.
C34_EveryPostAnswered ==
    notify.last.method = "POST" =>
        /\ AnsweredOnce(notify.last)
        /\ MalformedIsEmpty(notify.last)
        /\ UrgencyReplaced(notify.last)
====
